---- MODULE Spec2Model ----
(***************************************************************************)
(* A model of apple-mail-mcp: the AppleScript connector                    *)
(* (src/apple_mail_mcp/mail_connector.py), its helpers (utils.py,          *)
(* security.py) and the tool layer (server.py).                            *)
(*                                                                         *)
(* Python strings are TLA+ strings; Len, \o, Head, Tail and SubSeq act on  *)
(* them character by character.  An optional argument (None or a value)    *)
(* is the empty tuple <<>> or the one-element tuple <<v>>.  The mail host  *)
(* behind /usr/bin/osascript is the environment: every bridge invocation   *)
(* draws the subprocess result from a fixed set of results.                *)
(***************************************************************************)
EXTENDS Integers, Sequences, FiniteSets, TLC

VARIABLES
    whose_unsupported_accounts, \* AppleMailConnector._whose_unsupported_accounts
    operations,                 \* OperationLogger.operations (the audit log)
    op,                         \* the call that has just run, "idle" between calls
    args,                       \* its arguments
    calls,                      \* its bridge invocations, in order: script and result
    mail_calls,                 \* the connector methods a tool invoked, in order
    outcome,                    \* what it returned or raised
    store                       \* the messages Mail holds, each in one mailbox

vars == <<whose_unsupported_accounts, operations, op, args, calls, mail_calls, outcome,
          store>>

(***************************************************************************)
(* Python values and string methods                                        *)
(***************************************************************************)

None == <<>>

Some(v) == <<v>>

\* Python truthiness of an optional string: None and "" are falsy.
TruthyStr(o) == o # None /\ o[1] # ""

\* Python truthiness of an optional int: None and 0 are falsy.
TruthyInt(o) == o # None /\ o[1] # 0

Return(v) == [kind |-> "return", value |-> v]

Raise(exc, msg) == [kind |-> "raise", exc |-> exc, msg |-> msg]

\* needle in hay
Contains(hay, needle) ==
    \E i \in 0..(Len(hay) - Len(needle)) : SubSeq(hay, i + 1, i + Len(needle)) = needle

UpperLetters == "ABCDEFGHIJKLMNOPQRSTUVWXYZ"

LowerLetters == "abcdefghijklmnopqrstuvwxyz"

LowerChar(c) ==
    IF \E i \in 1..Len(UpperLetters) : SubSeq(UpperLetters, i, i) = c
    THEN LET i == CHOOSE j \in 1..Len(UpperLetters) : SubSeq(UpperLetters, j, j) = c
         IN  SubSeq(LowerLetters, i, i)
    ELSE c

RECURSIVE Lower(_)
\* str.lower()
Lower(s) ==
    IF Len(s) <= 1 THEN (IF s = "" THEN "" ELSE LowerChar(s))
    ELSE LET half == Len(s) \div 2
         IN  Lower(SubSeq(s, 1, half)) \o Lower(SubSeq(s, half + 1, Len(s)))

Whitespace == {" ", "\n", "\t", "\r"}

RECURSIVE LStrip(_)
LStrip(s) == IF s # "" /\ Head(s) \in Whitespace THEN LStrip(Tail(s)) ELSE s

RECURSIVE RStrip(_)
RStrip(s) ==
    IF s # "" /\ SubSeq(s, Len(s), Len(s)) \in Whitespace
    THEN RStrip(SubSeq(s, 1, Len(s) - 1))
    ELSE s

\* str.strip()
Strip(s) == RStrip(LStrip(s))

RECURSIVE SplitFrom(_, _, _)
\* the fields of s from position i on
SplitFrom(s, sep, i) ==
    LET seps == {j \in i..Len(s) : SubSeq(s, j, j) = sep}
    IN  IF seps = {} THEN << SubSeq(s, i, Len(s)) >>
        ELSE LET j == CHOOSE k \in seps : \A m \in seps : k <= m
             IN  << SubSeq(s, i, j - 1) >> \o SplitFrom(s, sep, j + 1)

\* str.split(sep) for a one-character separator
Split(s, sep) == SplitFrom(s, sep, 1)

RECURSIVE Join(_, _)
\* sep.join(items)
Join(items, sep) ==
    IF items = <<>> THEN ""
    ELSE IF Len(items) = 1 THEN items[1]
         ELSE LET half == Len(items) \div 2
              IN  Join(SubSeq(items, 1, half), sep) \o sep
                      \o Join(SubSeq(items, half + 1, Len(items)), sep)

RECURSIVE Replace(_, _, _)
\* str.replace(ch, rep) for a one-character ch
Replace(s, ch, rep) ==
    IF Len(s) <= 1 THEN (IF s = ch THEN rep ELSE s)
    ELSE LET half == Len(s) \div 2
         IN  Replace(SubSeq(s, 1, half), ch, rep) \o Replace(SubSeq(s, half + 1, Len(s)), ch, rep)

Digits == "0123456789"

IsDigitChar(c) == \E i \in 1..Len(Digits) : SubSeq(Digits, i, i) = c

DigitValue(c) == (CHOOSE i \in 1..Len(Digits) : SubSeq(Digits, i, i) = c) - 1

\* str.isdigit(): non-empty and all digits
IsDigit(s) == s # "" /\ \A i \in 1..Len(s) : IsDigitChar(SubSeq(s, i, i))

RECURSIVE ToInt(_)
\* int(s) for a digit string
ToInt(s) ==
    IF s = "" THEN 0
    ELSE 10 * ToInt(SubSeq(s, 1, Len(s) - 1)) + DigitValue(SubSeq(s, Len(s), Len(s)))

(***************************************************************************)
(* utils.py                                                                *)
(***************************************************************************)

\* The null byte, which sanitize_input removes ("\f" stands for "\x00",
\* which a TLA+ string cannot hold).
NUL == "\f"

max_length == 10000

escape_applescript_string(s) == Replace(Replace(s, "\\", "\\\\"), "\"", "\\\"")

sanitize_input(value) ==
    LET s == Replace(value, NUL, "")
    IN  IF Len(s) > max_length THEN SubSeq(s, 1, max_length) ELSE s

(***************************************************************************)
(* The scripting bridge: AppleMailConnector._run_applescript               *)
(***************************************************************************)

\* AppleMailConnector.timeout, in seconds
timeout == 60

\* What subprocess.run does: the interpreter exits with a return code,
\* the wait expires (TimeoutExpired), or the call itself fails (OSError).
Exit(returncode, stdout, stderr) ==
    [kind |-> "exit", returncode |-> returncode, stdout |-> stdout, stderr |-> stderr]

TimeoutExpired == [kind |-> "timeout", returncode |-> -1, stdout |-> "", stderr |-> ""]

OSError(text) == [kind |-> "oserror", returncode |-> -1, stdout |-> "", stderr |-> text]

\* Mutant: a mailbox that cannot be resolved is reported as a script error.
_run_applescript_no_mailbox_kind(proc) ==
    IF proc.kind = "timeout"
    THEN [kind |-> "raise", exc |-> "MailAppleScriptError",
          msg |-> "Script execution timeout after 60s"]
    ELSE IF proc.kind = "oserror"
    THEN [kind |-> "raise", exc |-> "MailAppleScriptError",
          msg |-> "Unexpected error: " \o proc.stderr]
    ELSE IF proc.returncode # 0
    THEN LET error_msg == Strip(proc.stderr)
         IN  [kind |-> "raise",
              exc |-> IF Contains(error_msg, "Can't get account")
                      THEN "MailAccountNotFoundError"
                      ELSE IF Contains(error_msg, "Can't get message")
                      THEN "MailMessageNotFoundError"
                      ELSE "MailAppleScriptError",
              msg |-> error_msg]
    ELSE [kind |-> "return", value |-> Strip(proc.stdout)]

\* Mutant: the mailbox marker is looked for before the account marker.
_run_applescript_mailbox_first(proc) ==
    IF proc.kind = "timeout"
    THEN [kind |-> "raise", exc |-> "MailAppleScriptError",
          msg |-> "Script execution timeout after 60s"]
    ELSE IF proc.kind = "oserror"
    THEN [kind |-> "raise", exc |-> "MailAppleScriptError",
          msg |-> "Unexpected error: " \o proc.stderr]
    ELSE IF proc.returncode # 0
    THEN LET error_msg == Strip(proc.stderr)
         IN  [kind |-> "raise",
              exc |-> IF Contains(error_msg, "Can't get mailbox")
                      THEN "MailMailboxNotFoundError"
                      ELSE IF Contains(error_msg, "Can't get account")
                      THEN "MailAccountNotFoundError"
                      ELSE IF Contains(error_msg, "Can't get message")
                      THEN "MailMessageNotFoundError"
                      ELSE "MailAppleScriptError",
              msg |-> error_msg]
    ELSE [kind |-> "return", value |-> Strip(proc.stdout)]

_run_applescript(proc) ==
    IF proc.kind = "timeout"
    THEN Raise("MailAppleScriptError",
               "Script execution timeout after " \o ToString(timeout) \o "s")
    ELSE IF proc.kind = "oserror"
    THEN Raise("MailAppleScriptError", "Unexpected error: " \o proc.stderr)
    ELSE IF proc.returncode # 0
    THEN LET error_msg == Strip(proc.stderr)
         IN  IF Contains(error_msg, "Can't get account")
             THEN Raise("MailAccountNotFoundError", error_msg)
             ELSE IF Contains(error_msg, "Can't get mailbox")
             THEN Raise("MailMailboxNotFoundError", error_msg)
             ELSE IF Contains(error_msg, "Can't get message")
             THEN Raise("MailMessageNotFoundError", error_msg)
             ELSE Raise("MailAppleScriptError", error_msg)
    ELSE Return(Strip(proc.stdout))

\* One bridge invocation: the script text handed to osascript (the lines
\* of the template that carry interpolated values or the query), what the
\* subprocess did, and what _run_applescript made of it.
Invocation(script, proc) ==
    [script |-> script, proc |-> proc, result |-> _run_applescript(proc)]

(***************************************************************************)
(* Search: the filtered (whose) query, the index scan, decoding, filtering *)
(***************************************************************************)

direct_script(account, mailbox, scan_limit) ==
    LET account_safe == escape_applescript_string(sanitize_input(account))
        mailbox_safe == escape_applescript_string(sanitize_input(mailbox))
    IN  << "set accountRef to account \"" \o account_safe \o "\"",
           "set mailboxRef to mailbox \"" \o mailbox_safe \o "\" of accountRef",
           "if fetchCount > " \o ToString(scan_limit)
               \o " then set fetchCount to " \o ToString(scan_limit),
           "set recentMsgs to messages 1 thru fetchCount of mailboxRef" >>

_search_messages_direct(account, mailbox, scan_limit, proc) ==
    Invocation(direct_script(account, mailbox, scan_limit), proc)

RECURSIVE parse_lines(_)
parse_lines(lines) ==
    IF lines = <<>> THEN <<>>
    ELSE LET line == Head(lines)
             parts == Split(line, "|")
         IN  (IF line # "" /\ Len(parts) >= 5
              THEN << [id |-> parts[1],
                       subject |-> parts[2],
                       sender |-> parts[3],
                       date_received |-> parts[4],
                       read_status |-> (Lower(parts[5]) = "true")] >>
              ELSE <<>>)
             \o parse_lines(Tail(lines))

_parse_message_results(result) ==
    IF result # "" THEN parse_lines(Split(result, "\n")) ELSE <<>>

RECURSIVE filter_loop(_, _, _, _, _, _)
\* the loop of _filter_messages over the messages still to visit
filter_loop(messages, filtered, sender_contains, subject_contains, read_status, limit) ==
    IF messages = <<>> THEN filtered
    ELSE LET msg == Head(messages)
             skip ==
                 \/ /\ TruthyStr(sender_contains)
                    /\ ~Contains(Lower(msg.sender), Lower(sender_contains[1]))
                 \/ /\ TruthyStr(subject_contains)
                    /\ ~Contains(Lower(msg.subject), Lower(subject_contains[1]))
                 \/ /\ read_status # None
                    /\ msg.read_status # read_status[1]
             kept == Append(filtered, msg)
         IN  IF skip
             THEN filter_loop(Tail(messages), filtered,
                              sender_contains, subject_contains, read_status, limit)
             ELSE IF TruthyInt(limit) /\ Len(kept) >= limit[1]
             THEN kept
             ELSE filter_loop(Tail(messages), kept,
                              sender_contains, subject_contains, read_status, limit)

RECURSIVE filter_loop_late_break(_, _, _, _, _, _)
\* Mutant loop: the limit stops the loop one record late.
filter_loop_late_break(messages, filtered, sender_contains, subject_contains, read_status, limit) ==
    IF messages = <<>> THEN filtered
    ELSE LET msg == Head(messages)
             skip ==
                 \/ /\ TruthyStr(sender_contains)
                    /\ ~Contains(Lower(msg.sender), Lower(sender_contains[1]))
                 \/ /\ TruthyStr(subject_contains)
                    /\ ~Contains(Lower(msg.subject), Lower(subject_contains[1]))
                 \/ /\ read_status # None
                    /\ msg.read_status # read_status[1]
             kept == Append(filtered, msg)
         IN  IF skip
             THEN filter_loop_late_break(Tail(messages), filtered,
                                         sender_contains, subject_contains, read_status, limit)
             ELSE IF TruthyInt(limit) /\ Len(kept) > limit[1]
             THEN kept
             ELSE filter_loop_late_break(Tail(messages), kept,
                                         sender_contains, subject_contains, read_status, limit)

\* Mutant: local filtering with the late limit.
_filter_messages_late_break(messages, sender_contains, subject_contains, read_status, limit) ==
    filter_loop_late_break(messages, <<>>, sender_contains, subject_contains, read_status, limit)

_filter_messages(messages, sender_contains, subject_contains, read_status, limit) ==
    filter_loop(messages, <<>>, sender_contains, subject_contains, read_status, limit)

\* Mutant: the second signature needs only one of its two substrings.
_is_whose_error_either(error_msg) ==
    \/ Contains(error_msg, "Illegal comparison or logical")
    \/ Contains(error_msg, "Can't get items") \/ Contains(error_msg, "whose")

\* Mutant: a timeout also sends the search to the index scan.
_is_whose_error_or_timeout(error_msg) ==
    \/ Contains(error_msg, "Illegal comparison or logical")
    \/ Contains(error_msg, "Can't get items") /\ Contains(error_msg, "whose")
    \/ Contains(error_msg, "timeout")

_is_whose_error(error_msg) ==
    \/ Contains(error_msg, "Illegal comparison or logical")
    \/ Contains(error_msg, "Can't get items") /\ Contains(error_msg, "whose")

whose_script(account, mailbox, sender_contains, subject_contains, read_status, limit) ==
    LET account_safe == escape_applescript_string(sanitize_input(account))
        mailbox_safe == escape_applescript_string(sanitize_input(mailbox))
        conditions ==
            (IF TruthyStr(sender_contains)
             THEN << "sender contains \""
                     \o escape_applescript_string(sanitize_input(sender_contains[1]))
                     \o "\"" >>
             ELSE <<>>)
            \o
            (IF TruthyStr(subject_contains)
             THEN << "subject contains \""
                     \o escape_applescript_string(sanitize_input(subject_contains[1]))
                     \o "\"" >>
             ELSE <<>>)
            \o
            (IF read_status # None
             THEN << "read status is " \o (IF read_status[1] THEN "true" ELSE "false") >>
             ELSE <<>>)
        whose_clause == IF conditions # <<>> THEN Join(conditions, " and ") ELSE "true"
        limit_clause ==
            IF TruthyInt(limit) THEN "items 1 thru " \o ToString(limit[1]) \o " of" ELSE ""
    IN  << "set accountRef to account \"" \o account_safe \o "\"",
           "set mailboxRef to mailbox \"" \o mailbox_safe \o "\" of accountRef",
           "set matchedMessages to " \o limit_clause
               \o " (messages of mailboxRef whose " \o whose_clause \o ")" >>

\* The exception classes `except MailAppleScriptError` catches: the class
\* itself (exceptions.py gives it no subclass).
CaughtAsAppleScriptError(exc) == exc = "MailAppleScriptError"

\* Mutant: the cache is never consulted.
known_whose_unsupported_never(cache, account) == FALSE

\* `account in self._whose_unsupported_accounts`
known_whose_unsupported(cache, account) == account \in cache

\* Mutant: a fallback marks every account, not only the one searched.
mark_whose_unsupported_everywhere(cache, account) == cache \cup {account, "Gmail", "Exchange"}

\* Mutant: the fallback scans without recording the account.
mark_whose_unsupported_skipped(cache, account) == cache

\* Mutant: marking an account replaces the set instead of adding to it.
mark_whose_unsupported_reset(cache, account) == {account}

\* `self._whose_unsupported_accounts.add(account)`
mark_whose_unsupported(cache, account) == cache \cup {account}

\* AppleMailConnector.search_messages.  cache is the whose-unsupported set
\* before the call; proc1 and proc2 are what the subprocess does on the
\* first and (if there is one) the second bridge invocation.
search_messages(cache, account, mailbox, sender_contains, subject_contains, read_status, limit, scan_limit, proc1, proc2) ==
    IF known_whose_unsupported(cache, account)
    THEN LET direct == _search_messages_direct(account, mailbox, scan_limit, proc1)
         IN  [cache |-> cache,
              calls |-> <<direct>>,
              outcome |->
                  IF direct.result.kind = "raise" THEN direct.result
                  ELSE Return(_filter_messages(
                           _parse_message_results(direct.result.value),
                           sender_contains, subject_contains, read_status, limit))]
    ELSE LET first == Invocation(whose_script(account, mailbox, sender_contains,
                                              subject_contains, read_status, limit),
                                 proc1)
         IN  IF first.result.kind = "return"
             THEN [cache |-> cache,
                   calls |-> <<first>>,
                   outcome |-> Return(_parse_message_results(first.result.value))]
             ELSE IF CaughtAsAppleScriptError(first.result.exc)
                     /\ _is_whose_error(first.result.msg)
             THEN LET direct == _search_messages_direct(account, mailbox, scan_limit, proc2)
                  IN  [cache |-> mark_whose_unsupported(cache, account),
                       calls |-> <<first, direct>>,
                       outcome |->
                           IF direct.result.kind = "raise" THEN direct.result
                           ELSE Return(_filter_messages(
                                    _parse_message_results(direct.result.value),
                                    sender_contains, subject_contains, read_status, limit))]
             ELSE [cache |-> cache, calls |-> <<first>>, outcome |-> first.result]

(***************************************************************************)
(* Single-message fetch: AppleMailConnector.get_message                     *)
(***************************************************************************)

\* s.split(sep, maxsplit): at most maxsplit cuts, the rest stays whole
SplitMax(s, sep, maxsplit) ==
    LET parts == Split(s, sep)
    IN  IF Len(parts) <= maxsplit + 1 THEN parts
        ELSE SubSeq(parts, 1, maxsplit)
                 \o << Join(SubSeq(parts, maxsplit + 1, Len(parts)), sep) >>

\* What get_message makes of the parts of the bridge's output.
message_record(parts) ==
    [id |-> parts[1],
     subject |-> parts[2],
     sender |-> parts[3],
     date_received |-> parts[4],
     read_status |-> (Lower(parts[5]) = "true"),
     flagged |-> (Lower(parts[6]) = "true"),
     content |-> IF Len(parts) > 6 THEN parts[7] ELSE ""]

get_message_script(message_id, include_content) ==
    << "set msg to first message of mb whose id is "
           \o escape_applescript_string(sanitize_input(message_id)),
       IF include_content THEN "set msgContent to content of msg"
                          ELSE "set msgContent to \"\"",
       "error \"Message not found\"" >>

\* Mutant: the output is cut at every pipe.
get_message_resplit(message_id, include_content, proc) ==
    LET run == Invocation(get_message_script(message_id, include_content), proc)
        parts == Split(run.result.value, "|")
    IN  [calls |-> <<run>>,
         outcome |->
             IF run.result.kind = "raise" THEN run.result
             ELSE IF Len(parts) >= 6 THEN Return(message_record(parts))
             ELSE Raise("MailMessageNotFoundError",
                        "Could not parse message: " \o message_id)]

get_message(message_id, include_content, proc) ==
    LET run == Invocation(get_message_script(message_id, include_content), proc)
        parts == SplitMax(run.result.value, "|", 6)
    IN  [calls |-> <<run>>,
         outcome |->
             IF run.result.kind = "raise" THEN run.result
             ELSE IF Len(parts) >= 6 THEN Return(message_record(parts))
             ELSE Raise("MailMessageNotFoundError",
                        "Could not parse message: " \o message_id)]

(***************************************************************************)
(* Mutation by message ID: mark_as_read, move_messages, flag_message,      *)
(* delete_messages                                                         *)
(***************************************************************************)

\* `int(result) if result.isdigit() else 0` on what the bridge returned;
\* a bridge error propagates.
count_result(invocation) ==
    IF invocation.result.kind = "raise" THEN invocation.result
    ELSE Return(IF IsDigit(invocation.result.value)
                THEN ToInt(invocation.result.value) ELSE 0)

\* Mutant: the empty list is not short-circuited.
no_message_ids_never(message_ids) == FALSE

\* `not message_ids`
no_message_ids(message_ids) == message_ids = <<>>

id_list_line(message_ids) == "set idList to {" \o Join(message_ids, ", ") \o "}"

mark_as_read(message_ids, read, proc) ==
    IF no_message_ids(message_ids)
    THEN [calls |-> <<>>, outcome |-> Return(0)]
    ELSE LET status == IF read THEN "true" ELSE "false"
             script == << id_list_line(message_ids),
                          "set read status of msg to " \o status >>
             run == Invocation(script, proc)
         IN  [calls |-> <<run>>, outcome |-> count_result(run)]

move_messages(message_ids, destination_mailbox, account, gmail_mode, proc) ==
    IF no_message_ids(message_ids)
    THEN [calls |-> <<>>, outcome |-> Return(0)]
    ELSE LET account_safe == escape_applescript_string(sanitize_input(account))
             mailbox_safe == escape_applescript_string(sanitize_input(destination_mailbox))
             script ==
                 << "set accountRef to account \"" \o account_safe \o "\"",
                    "set destMailbox to mailbox \"" \o mailbox_safe \o "\" of accountRef",
                    id_list_line(message_ids) >>
                 \o (IF gmail_mode
                     THEN << "duplicate msg to destMailbox", "delete msg" >>
                     ELSE << "set mailbox of msg to destMailbox" >>)
             run == Invocation(script, proc)
         IN  [calls |-> <<run>>, outcome |-> count_result(run)]

valid_colors == {"none", "orange", "red", "yellow", "blue", "green", "purple", "gray"}

validate_flag_color(color) == Lower(color) \in valid_colors

color_map ==
    [c \in {"none", "orange", "red", "yellow", "blue", "green", "purple", "gray"} |->
        CASE c = "none" -> -1
          [] c = "orange" -> 0
          [] c = "red" -> 1
          [] c = "yellow" -> 2
          [] c = "blue" -> 3
          [] c = "green" -> 4
          [] c = "purple" -> 5
          [] c = "gray" -> 6]

get_flag_index(color) ==
    LET color_lower == Lower(color)
    IN  IF color_lower \notin DOMAIN color_map
        THEN Raise("ValueError",
                   "Invalid flag color: " \o color
                   \o ". Valid colors: none, orange, red, yellow, blue, green, purple, gray")
        ELSE Return(color_map[color_lower])

\* `"true" if flag_color != "none" else "false"`
flagged_status(flag_color) == IF flag_color # "none" THEN "true" ELSE "false"

\* Mutant: the color is not validated; an unknown color is sent as index -1.
flag_message_unvalidated(message_ids, flag_color, proc) ==
    IF message_ids = <<>>
    THEN [calls |-> <<>>, outcome |-> Return(0)]
    ELSE LET flag_index ==
                 IF Lower(flag_color) \in DOMAIN color_map
                 THEN color_map[Lower(flag_color)] ELSE -1
             script ==
                 << "set idList to {" \o Join(message_ids, ", ") \o "}",
                    "set flag index of msg to " \o ToString(flag_index),
                    "set flagged status of msg to "
                        \o (IF flag_color # "none" THEN "true" ELSE "false") >>
             run == [script |-> script, proc |-> proc, result |-> _run_applescript(proc)]
         IN  [calls |-> <<run>>,
              outcome |-> IF run.result.kind = "raise" THEN run.result
                          ELSE Return(IF IsDigit(run.result.value)
                                      THEN ToInt(run.result.value) ELSE 0)]

flag_message(message_ids, flag_color, proc) ==
    IF no_message_ids(message_ids)
    THEN [calls |-> <<>>, outcome |-> Return(0)]
    ELSE IF ~validate_flag_color(flag_color)
    THEN [calls |-> <<>>,
          outcome |-> Raise("ValueError", "Invalid flag color: " \o flag_color)]
    ELSE LET flag_index == get_flag_index(flag_color)
             script ==
                 << id_list_line(message_ids),
                    "set flag index of msg to " \o ToString(flag_index.value),
                    "set flagged status of msg to " \o flagged_status(flag_color) >>
             run == Invocation(script, proc)
         IN  IF flag_index.kind = "raise"
             THEN [calls |-> <<>>, outcome |-> flag_index]
             ELSE [calls |-> <<run>>, outcome |-> count_result(run)]

\* the bulk ceiling of delete_messages
max_bulk_delete == 100

\* Mutant: the ceiling itself is rejected.
bulk_check_fails_at_limit(message_ids, skip_bulk_check) ==
    ~skip_bulk_check /\ Len(message_ids) >= max_bulk_delete

\* `not skip_bulk_check and len(message_ids) > 100`
bulk_check_fails(message_ids, skip_bulk_check) ==
    ~skip_bulk_check /\ Len(message_ids) > max_bulk_delete

delete_messages(message_ids, permanent, skip_bulk_check, proc) ==
    IF no_message_ids(message_ids)
    THEN [calls |-> <<>>, outcome |-> Return(0)]
    ELSE IF bulk_check_fails(message_ids, skip_bulk_check)
    THEN [calls |-> <<>>,
          outcome |-> Raise("ValueError",
              "Too many messages for bulk delete (" \o ToString(Len(message_ids))
              \o "). Maximum is 100 without skip_bulk_check=True")]
    ELSE LET script ==
                 IF permanent
                 THEN << id_list_line(message_ids), "delete msg" >>
                 ELSE << id_list_line(message_ids), "delete msg" >>
             run == Invocation(script, proc)
         IN  [calls |-> <<run>>, outcome |-> count_result(run)]

(***************************************************************************)
(* Sending: validation (utils.py, security.py), the connector's send       *)
(* methods and the send tools of server.py                                 *)
(***************************************************************************)

\* The character classes of the pattern of validate_email.
LocalChars == UpperLetters \o LowerLetters \o Digits \o "._%+-"

DomainChars == UpperLetters \o LowerLetters \o Digits \o ".-"

TldChars == UpperLetters \o LowerLetters

AllIn(s, from, to, class) == \A i \in from..to : Contains(class, SubSeq(s, i, i))

\* s, all of it, is local@domain.tld as the pattern spells it
MatchesAddress(s) ==
    \E at \in 2..Len(s), dot \in 3..Len(s) :
        /\ SubSeq(s, at, at) = "@"
        /\ AllIn(s, 1, at - 1, LocalChars)
        /\ dot > at + 1
        /\ AllIn(s, at + 1, dot - 1, DomainChars)
        /\ SubSeq(s, dot, dot) = "."
        /\ Len(s) - dot >= 2
        /\ AllIn(s, dot + 1, Len(s), TldChars)

\* re.match(pattern, email): "$" also matches before one trailing newline
validate_email(email) ==
    \/ MatchesAddress(email)
    \/ /\ email # ""
       /\ SubSeq(email, Len(email), Len(email)) = "\n"
       /\ MatchesAddress(SubSeq(email, 1, Len(email) - 1))

\* x or [] for an optional list
OrEmpty(o) == IF o = None THEN <<>> ELSE o[1]

max_recipients == 100

\* Mutant: recipients are validated without asking for a 'to' recipient.
validate_send_operation_no_to_check(to, cc, bcc) ==
    LET all_recipients == to \o OrEmpty(cc) \o OrEmpty(bcc)
    IN  IF \E i \in DOMAIN all_recipients : ~validate_email(all_recipients[i])
        THEN [is_valid |-> FALSE, error_msg |-> "Invalid email addresses"]
        ELSE [is_valid |-> TRUE, error_msg |-> ""]

\* security.validate_send_operation: the pair (is_valid, error_message)
validate_send_operation(to, cc, bcc) ==
    LET all_recipients == to \o OrEmpty(cc) \o OrEmpty(bcc)
        Invalid(email) == ~validate_email(email)
        invalid_emails == SelectSeq(all_recipients, Invalid)
    IN  IF to = <<>>
        THEN [is_valid |-> FALSE, error_msg |-> "At least one 'to' recipient is required"]
        ELSE IF invalid_emails # <<>>
        THEN [is_valid |-> FALSE,
              error_msg |-> "Invalid email addresses: " \o Join(invalid_emails, ", ")]
        ELSE IF Len(all_recipients) > max_recipients
        THEN [is_valid |-> FALSE,
              error_msg |-> "Too many recipients (max: " \o ToString(max_recipients) \o ")"]
        ELSE [is_valid |-> TRUE, error_msg |-> ""]

\* security.require_confirmation: the caller's confirmation, as passed
require_confirmation(operation, details, confirmed) == confirmed

\* OperationLogger.log_operation (the entry's timestamp, the wall clock of
\* the call, is left out)
log_operation(log, operation, parameters, result) ==
    Append(log, [operation |-> operation, parameters |-> parameters, result |-> result])

\* items[start:] for a list, as Python reads a start index
SliceFrom(items, start) ==
    LET from == IF start < 0
                THEN (IF Len(items) + start < 0 THEN 0 ELSE Len(items) + start)
                ELSE (IF start > Len(items) THEN Len(items) ELSE start)
    IN  SubSeq(items, from + 1, Len(items))

\* OperationLogger.get_recent_operations: `self.operations[-limit:]`
get_recent_operations(log, limit) == SliceFrom(log, 0 - limit)

\* s.endswith(suffix)
EndsWith(s, suffix) ==
    Len(s) >= Len(suffix) /\ SubSeq(s, Len(s) - Len(suffix) + 1, Len(s)) = suffix

dangerous_extensions ==
    { ".exe", ".bat", ".cmd", ".com", ".scr", ".pif",
      ".vbs", ".vbe", ".js", ".jse", ".wsf", ".wsh",
      ".msi", ".msp", ".scf", ".lnk", ".inf", ".reg",
      ".ps1", ".psm1", ".app", ".deb", ".rpm", ".sh",
      ".bash", ".csh", ".ksh", ".zsh", ".command" }

\* security.validate_attachment_type: a name ending in a listed extension
\* is allowed exactly when allow_executables is set
validate_attachment_type(filename, allow_executables) ==
    (\E ext \in dangerous_extensions : EndsWith(Lower(filename), ext)) => allow_executables

max_attachment_size == 25 * 1024 * 1024

\* Mutant: a file of exactly the ceiling size is refused.
validate_attachment_size_below(size_bytes, max_size) == size_bytes < max_size

\* security.validate_attachment_size
validate_attachment_size(size_bytes, max_size) == size_bytes <= max_size

\* Path(p).name: the last component of the path
PathName(path) == LET parts == Split(path, "/") IN parts[Len(parts)]

\* A file path as the file system answers for it: whether it exists, is a
\* regular file, and its size in bytes.
File(path, exists, is_file, size) ==
    [path |-> path, exists |-> exists, is_file |-> is_file, size |-> size]

\* "a", "b" for the items of a script list
QuotedList(items) ==
    Join([i \in DOMAIN items |-> "\"" \o escape_applescript_string(items[i]) \o "\""], ", ")

\* The lines of the send scripts that carry interpolated values.
send_script(subject, body, to, cc, bcc) ==
    << "set theMessage to make new outgoing message with properties {subject:\""
           \o escape_applescript_string(sanitize_input(subject)) \o "\", content:\""
           \o escape_applescript_string(sanitize_input(body)) \o "\", visible:false}",
       "repeat with addr in {" \o QuotedList(to) \o "}",
       "repeat with addr in {" \o QuotedList(OrEmpty(cc)) \o "}",
       "repeat with addr in {" \o QuotedList(OrEmpty(bcc)) \o "}" >>

\* the connector's result is whether the script answered "sent"
sent_result(invocation) ==
    IF invocation.result.kind = "return"
    THEN Return(invocation.result.value = "sent")
    ELSE invocation.result

\* AppleMailConnector.send_email
send_email(subject, body, to, cc, bcc, proc) ==
    LET run == Invocation(Append(send_script(subject, body, to, cc, bcc), "send"), proc)
    IN  [calls |-> <<run>>, outcome |-> sent_result(run)]

RECURSIVE attachment_error(_)
\* the first attachment the validation loop of send_email_with_attachments
\* rejects, if there is one
attachment_error(attachments) ==
    IF attachments = <<>> THEN None
    ELSE LET f == Head(attachments)
         IN  IF ~f.exists
             THEN Some(Raise("FileNotFoundError", "Attachment not found: " \o f.path))
             ELSE IF ~f.is_file
             THEN Some(Raise("ValueError", "Attachment is not a file: " \o f.path))
             ELSE IF ~validate_attachment_size(f.size, max_attachment_size)
             THEN Some(Raise("ValueError",
                             "Attachment " \o PathName(f.path) \o " exceeds size limit ("
                                 \o ToString(f.size) \o " bytes > "
                                 \o ToString(max_attachment_size) \o " bytes)"))
             ELSE IF ~validate_attachment_type(PathName(f.path), FALSE)
             THEN Some(Raise("ValueError",
                             "Attachment type not allowed: " \o PathName(f.path)))
             ELSE attachment_error(Tail(attachments))

\* AppleMailConnector.send_email_with_attachments
send_email_with_attachments(subject, body, to, attachments, cc, bcc, proc) ==
    LET rejected == attachment_error(attachments)
        attachment_list ==
            Join([i \in DOMAIN attachments |->
                     "POSIX file \"" \o escape_applescript_string(attachments[i].path) \o "\""],
                 ", ")
        script == send_script(subject, body, to, cc, bcc)
                      \o << "repeat with filePath in {" \o attachment_list \o "}", "send" >>
        run == Invocation(script, proc)
    IN  IF rejected # None
        THEN [calls |-> <<>>, outcome |-> rejected[1]]
        ELSE [calls |-> <<run>>, outcome |-> sent_result(run)]

\* body[:100] + "..." if len(body) > 100 else body
body_preview(body) == IF Len(body) > 100 THEN SubSeq(body, 1, 100) \o "..." ELSE body

\* What a tool call leaves behind: the operation log, the calls it made on
\* the connector, the bridge invocations of those calls, and its result.
ToolResult(log, connector_calls, invocations, result) ==
    [operations |-> log, mail_calls |-> connector_calls, calls |-> invocations,
     outcome |-> result]

\* A call made on the connector `mail` by a tool.
MailCall(method, r) == << [method |-> method, outcome |-> r.outcome] >>

\* Calling a tool function with a keyword its signature does not have.
UnexpectedKeyword(function, keyword) ==
    Raise("TypeError",
          function \o "() got an unexpected keyword argument '" \o keyword \o "'")

\* The tool send_email of server.py.  Its parameters are subject, body, to,
\* cc and bcc; `confirmed` is the caller's keyword of that name, if passed.
tool_send_email(log, subject, body, to, cc, bcc, confirmed, proc) ==
    LET v == validate_send_operation(to, cc, bcc)
        confirmation_details ==
            [subject |-> subject, to |-> to, cc |-> OrEmpty(cc), bcc |-> OrEmpty(bcc),
             body_preview |-> body_preview(body)]
        sent == send_email(subject, body, to, cc, bcc, proc)
    IN  IF confirmed # None
        THEN ToolResult(log, <<>>, <<>>, UnexpectedKeyword("send_email", "confirmed"))
        ELSE IF ~v.is_valid
        THEN ToolResult(log, <<>>, <<>>,
                 Return([success |-> FALSE, error |-> v.error_msg,
                         error_type |-> "validation_error"]))
        ELSE IF ~require_confirmation("send_email", confirmation_details, FALSE)
        THEN ToolResult(log_operation(log, "send_email", confirmation_details, "cancelled"),
                 <<>>, <<>>,
                 Return([success |-> FALSE, error |-> "User cancelled operation",
                         error_type |-> "cancelled"]))
        ELSE IF sent.outcome.kind = "return"
        THEN ToolResult(log_operation(log, "send_email",
                                      [subject |-> subject, to |-> to, cc |-> cc, bcc |-> bcc],
                                      "success"),
                 MailCall("send_email", sent), sent.calls,
                 Return([success |-> TRUE, message |-> "Email sent successfully",
                         details |-> [subject |-> subject,
                                      recipients |-> Len(to) + Len(OrEmpty(cc))
                                                        + Len(OrEmpty(bcc))]]))
        ELSE IF sent.outcome.exc = "MailAppleScriptError"
        THEN ToolResult(log_operation(log, "send_email", [subject |-> subject], "failure"),
                 MailCall("send_email", sent), sent.calls,
                 Return([success |-> FALSE,
                         error |-> "Failed to send email: " \o sent.outcome.msg,
                         error_type |-> "send_error"]))
        ELSE ToolResult(log, MailCall("send_email", sent), sent.calls,
                 Return([success |-> FALSE, error |-> sent.outcome.msg,
                         error_type |-> "unknown"]))

\* The tool send_email_with_attachments of server.py.
tool_send_email_with_attachments(log, subject, body, to, attachments, cc, bcc, confirmed, proc) ==
    LET name == "send_email_with_attachments"
        v == validate_send_operation(to, cc, bcc)
        Missing(f) == ~f.exists
        missing == SelectSeq(attachments, Missing)
        missing_files == [i \in DOMAIN missing |-> missing[i].path]
        confirmation_details ==
            [subject |-> subject, to |-> to, cc |-> OrEmpty(cc), bcc |-> OrEmpty(bcc),
             attachments |-> [i \in DOMAIN attachments |-> PathName(attachments[i].path)],
             body_preview |-> body_preview(body)]
        sent == send_email_with_attachments(subject, body, to, attachments, cc, bcc, proc)
    IN  IF confirmed # None
        THEN ToolResult(log, <<>>, <<>>, UnexpectedKeyword(name, "confirmed"))
        ELSE IF ~v.is_valid
        THEN ToolResult(log, <<>>, <<>>,
                 Return([success |-> FALSE, error |-> v.error_msg,
                         error_type |-> "validation_error"]))
        ELSE IF missing_files # <<>>
        THEN ToolResult(log, <<>>, <<>>,
                 Return([success |-> FALSE,
                         error |-> "Attachment files not found: " \o Join(missing_files, ", "),
                         error_type |-> "file_not_found"]))
        ELSE IF ~require_confirmation(name, confirmation_details, FALSE)
        THEN ToolResult(log_operation(log, name, confirmation_details, "cancelled"),
                 <<>>, <<>>,
                 Return([success |-> FALSE, error |-> "User cancelled operation",
                         error_type |-> "cancelled"]))
        ELSE IF sent.outcome.kind = "return"
        THEN ToolResult(log_operation(log, name,
                                      [subject |-> subject, to |-> to,
                                       attachments |-> Len(attachments)],
                                      "success"),
                 MailCall(name, sent), sent.calls,
                 Return([success |-> TRUE,
                         message |-> "Email sent with " \o ToString(Len(attachments))
                                         \o " attachment(s)",
                         details |-> [subject |-> subject,
                                      recipients |-> Len(to) + Len(OrEmpty(cc))
                                                        + Len(OrEmpty(bcc)),
                                      attachments |-> Len(attachments)]]))
        ELSE IF sent.outcome.exc \in {"FileNotFoundError", "ValueError"}
        THEN ToolResult(log_operation(log, name, [subject |-> subject], "failure"),
                 MailCall(name, sent), sent.calls,
                 Return([success |-> FALSE, error |-> sent.outcome.msg,
                         error_type |-> "validation_error"]))
        ELSE IF sent.outcome.exc = "MailAppleScriptError"
        THEN ToolResult(log_operation(log, name, [subject |-> subject], "failure"),
                 MailCall(name, sent), sent.calls,
                 Return([success |-> FALSE,
                         error |-> "Failed to send email: " \o sent.outcome.msg,
                         error_type |-> "send_error"]))
        ELSE ToolResult(log, MailCall(name, sent), sent.calls,
                 Return([success |-> FALSE, error |-> sent.outcome.msg,
                         error_type |-> "unknown"]))

(***************************************************************************)
(* The mutate-by-ID tools of server.py                                     *)
(***************************************************************************)

\* A tool's failure result.
ErrorResult(error, error_type) ==
    Return([success |-> FALSE, error |-> error, error_type |-> error_type])

\* security.validate_bulk_operation: the pair (is_valid, error_message)
validate_bulk_operation(item_count, max_items) ==
    IF item_count = 0
    THEN [is_valid |-> FALSE, error_msg |-> "No items specified for operation"]
    ELSE IF item_count > max_items
    THEN [is_valid |-> FALSE,
          error_msg |-> "Too many items (" \o ToString(item_count) \o "), maximum is "
                            \o ToString(max_items)]
    ELSE [is_valid |-> TRUE, error_msg |-> ""]

\* the max_items the tool mark_as_read passes
mark_as_read_max_items == 100

\* The tool mark_as_read of server.py.
tool_mark_as_read(log, message_ids, read, proc) ==
    LET v == validate_bulk_operation(Len(message_ids), mark_as_read_max_items)
        r == mark_as_read(message_ids, read, proc)
    IN  IF ~v.is_valid
        THEN ToolResult(log, <<>>, <<>>, ErrorResult(v.error_msg, "validation_error"))
        ELSE IF r.outcome.kind = "return"
        THEN ToolResult(log_operation(log, "mark_as_read",
                                      [count |-> Len(message_ids), read |-> read],
                                      "success"),
                 MailCall("mark_as_read", r), r.calls,
                 Return([success |-> TRUE, updated |-> r.outcome.value,
                         requested |-> Len(message_ids)]))
        ELSE ToolResult(log, MailCall("mark_as_read", r), r.calls,
                 ErrorResult(r.outcome.msg, "unknown"))

\* The tool move_messages of server.py.
tool_move_messages(log, message_ids, destination_mailbox, account, gmail_mode, proc) ==
    LET r == move_messages(message_ids, destination_mailbox, account, gmail_mode, proc)
        made == MailCall("move_messages", r)
    IN  IF message_ids = <<>>
        THEN ToolResult(log, <<>>, <<>>,
                 Return([success |-> TRUE, count |-> 0, message |-> "No messages to move"]))
        ELSE IF r.outcome.kind = "return"
        THEN ToolResult(log, made, r.calls,
                 Return([success |-> TRUE, count |-> r.outcome.value,
                         destination |-> destination_mailbox, account |-> account]))
        ELSE IF r.outcome.exc = "MailMailboxNotFoundError"
        THEN ToolResult(log, made, r.calls,
                 ErrorResult("Mailbox '" \o destination_mailbox \o "' not found in account '"
                                 \o account \o "'",
                             "mailbox_not_found"))
        ELSE IF r.outcome.exc = "MailAccountNotFoundError"
        THEN ToolResult(log, made, r.calls,
                 ErrorResult("Account '" \o account \o "' not found", "account_not_found"))
        ELSE ToolResult(log, made, r.calls, ErrorResult(r.outcome.msg, "unknown"))

\* The tool flag_message of server.py.
tool_flag_message(log, message_ids, flag_color, proc) ==
    LET r == flag_message(message_ids, flag_color, proc)
        made == MailCall("flag_message", r)
    IN  IF message_ids = <<>>
        THEN ToolResult(log, <<>>, <<>>,
                 Return([success |-> TRUE, count |-> 0, message |-> "No messages to flag"]))
        ELSE IF r.outcome.kind = "return"
        THEN ToolResult(log, made, r.calls,
                 Return([success |-> TRUE, count |-> r.outcome.value,
                         flag_color |-> flag_color]))
        ELSE IF r.outcome.exc = "ValueError"
        THEN ToolResult(log, made, r.calls, ErrorResult(r.outcome.msg, "validation_error"))
        ELSE IF r.outcome.exc = "MailMessageNotFoundError"
        THEN ToolResult(log, made, r.calls, ErrorResult(r.outcome.msg, "message_not_found"))
        ELSE ToolResult(log, made, r.calls, ErrorResult(r.outcome.msg, "unknown"))

\* the ceiling the tool delete_messages checks itself
tool_max_delete == 100

\* The tool delete_messages of server.py.
tool_delete_messages(log, message_ids, permanent, proc) ==
    LET r == delete_messages(message_ids, permanent, FALSE, proc)
        made == MailCall("delete_messages", r)
    IN  IF message_ids = <<>>
        THEN ToolResult(log, <<>>, <<>>,
                 Return([success |-> TRUE, count |-> 0, message |-> "No messages to delete"]))
        ELSE IF Len(message_ids) > tool_max_delete
        THEN ToolResult(log, <<>>, <<>>,
                 ErrorResult("Cannot delete " \o ToString(Len(message_ids))
                                 \o " messages at once (max: 100)",
                             "validation_error"))
        ELSE IF r.outcome.kind = "return"
        THEN ToolResult(log, made, r.calls,
                 Return([success |-> TRUE, count |-> r.outcome.value,
                         permanent |-> permanent]))
        ELSE IF r.outcome.exc = "ValueError"
        THEN ToolResult(log, made, r.calls, ErrorResult(r.outcome.msg, "validation_error"))
        ELSE IF r.outcome.exc = "MailMessageNotFoundError"
        THEN ToolResult(log, made, r.calls, ErrorResult(r.outcome.msg, "message_not_found"))
        ELSE ToolResult(log, made, r.calls, ErrorResult(r.outcome.msg, "unknown"))

(***************************************************************************)
(* Mailbox creation: sanitize_mailbox_name, the connector's create_mailbox *)
(* and the tool create_mailbox                                             *)
(***************************************************************************)

RECURSIVE RemoveAll(_, _)
\* s.replace(sub, ""), left to right
RemoveAll(s, sub) ==
    IF Len(s) < Len(sub) THEN s
    ELSE IF SubSeq(s, 1, Len(sub)) = sub
    THEN RemoveAll(SubSeq(s, Len(sub) + 1, Len(s)), sub)
    ELSE SubSeq(s, 1, 1) \o RemoveAll(SubSeq(s, 2, Len(s)), sub)

\* the characters the pattern [<>:"|?*] removes
dangerous_characters == <<"<", ">", ":", "\"", "|", "?", "*">>

RECURSIVE RemoveEach(_, _)
RemoveEach(s, chars) ==
    IF chars = <<>> THEN s ELSE RemoveEach(RemoveAll(s, Head(chars)), Tail(chars))

\* utils.sanitize_mailbox_name
sanitize_mailbox_name(name) ==
    Strip(RemoveEach(RemoveAll(RemoveAll(RemoveAll(RemoveAll(name, NUL), ".."), "/"), "\\"),
                     dangerous_characters))

\* AppleMailConnector.create_mailbox
create_mailbox(account, name, parent_mailbox, proc) ==
    LET sanitized_name == sanitize_mailbox_name(name)
        account_safe == escape_applescript_string(sanitize_input(account))
        name_safe == escape_applescript_string(sanitized_name)
        script ==
            IF TruthyStr(parent_mailbox)
            THEN << "set accountRef to account \"" \o account_safe \o "\"",
                    "set parentMailbox to mailbox \""
                        \o escape_applescript_string(sanitize_input(parent_mailbox[1]))
                        \o "\" of accountRef",
                    "make new mailbox at parentMailbox with properties {name:\""
                        \o name_safe \o "\"}" >>
            ELSE << "set accountRef to account \"" \o account_safe \o "\"",
                    "make new mailbox at accountRef with properties {name:\""
                        \o name_safe \o "\"}" >>
        run == Invocation(script, proc)
    IN  IF sanitized_name = ""
        THEN [calls |-> <<>>, outcome |-> Raise("ValueError", "Invalid mailbox name: " \o name)]
        ELSE [calls |-> <<run>>,
              outcome |-> IF run.result.kind = "return"
                          THEN Return(run.result.value = "success")
                          ELSE run.result]

\* The tool create_mailbox of server.py.
tool_create_mailbox(log, account, name, parent_mailbox, proc) ==
    LET r == create_mailbox(account, name, parent_mailbox, proc)
        made == MailCall("create_mailbox", r)
    IN  IF name = "" \/ Strip(name) = ""
        THEN ToolResult(log, <<>>, <<>>,
                 ErrorResult("Mailbox name cannot be empty", "validation_error"))
        ELSE IF r.outcome.kind = "return"
        THEN ToolResult(log, made, r.calls,
                 Return([success |-> r.outcome.value, account |-> account,
                         mailbox |-> name, parent |-> parent_mailbox]))
        ELSE IF r.outcome.exc = "ValueError"
        THEN ToolResult(log, made, r.calls, ErrorResult(r.outcome.msg, "validation_error"))
        ELSE IF r.outcome.exc = "MailAccountNotFoundError"
        THEN ToolResult(log, made, r.calls,
                 ErrorResult("Account '" \o account \o "' not found", "account_not_found"))
        ELSE IF r.outcome.exc = "MailAppleScriptError"
        THEN ToolResult(log, made, r.calls, ErrorResult(r.outcome.msg, "applescript_error"))
        ELSE ToolResult(log, made, r.calls, ErrorResult(r.outcome.msg, "unknown"))

(***************************************************************************)
(* Reply and forward: AppleMailConnector.reply_to_message, forward_message  *)
(***************************************************************************)

\* '{"a", "b"}'
format_applescript_list(items) == "{" \o QuotedList(items) \o "}"

\* The first address of the list that validate_email refuses, if any.
FirstInvalid(addresses) ==
    IF \E i \in DOMAIN addresses : ~validate_email(addresses[i])
    THEN Some(addresses[CHOOSE i \in DOMAIN addresses :
                  /\ ~validate_email(addresses[i])
                  /\ \A j \in 1..(i - 1) : validate_email(addresses[j])])
    ELSE None

reply_to_message(message_id, body, reply_all, proc) ==
    LET body_safe == escape_applescript_string(sanitize_input(body))
        reply_type == IF reply_all THEN "reply to all" ELSE "reply"
        script ==
            << "set idList to {\"" \o message_id \o "\"}",
               "set origMsg to first message of mb whose id is \"" \o message_id \o "\"",
               "set replyMsg to " \o reply_type \o " origMsg",
               "set content of replyMsg to \"" \o body_safe \o "\"",
               "send replyMsg" >>
        run == Invocation(script, proc)
    IN  [calls |-> <<run>>, outcome |-> run.result]

forward_message(message_id, to, body, cc, bcc, proc) ==
    LET body_safe == escape_applescript_string(sanitize_input(body))
        to_list == format_applescript_list(to)
        cc_list == IF OrEmpty(cc) # <<>> THEN format_applescript_list(OrEmpty(cc)) ELSE "\"\""
        bcc_list == IF OrEmpty(bcc) # <<>> THEN format_applescript_list(OrEmpty(bcc)) ELSE "\"\""
        script ==
            << "set origMsg to first message of mb whose id is \"" \o message_id \o "\"",
               "set fwdMsg to forward origMsg",
               "set content of fwdMsg to \"" \o body_safe \o "\" & return & return & origContent",
               "set toRecipients to " \o to_list,
               "if " \o cc_list \o " is not \"\" then",
               "if " \o bcc_list \o " is not \"\" then",
               "send fwdMsg" >>
        run == Invocation(script, proc)
    IN  IF to = <<>>
        THEN [calls |-> <<>>, outcome |-> Raise("ValueError", "At least one recipient required")]
        ELSE IF FirstInvalid(to) # None
        THEN [calls |-> <<>>,
              outcome |-> Raise("ValueError", "Invalid email address: " \o FirstInvalid(to)[1])]
        ELSE IF FirstInvalid(OrEmpty(cc)) # None
        THEN [calls |-> <<>>,
              outcome |-> Raise("ValueError",
                                "Invalid CC email address: " \o FirstInvalid(OrEmpty(cc))[1])]
        ELSE IF FirstInvalid(OrEmpty(bcc)) # None
        THEN [calls |-> <<>>,
              outcome |-> Raise("ValueError",
                                "Invalid BCC email address: " \o FirstInvalid(OrEmpty(bcc))[1])]
        ELSE [calls |-> <<run>>, outcome |-> run.result]

(***************************************************************************)
(* The environment: what callers pass and what the mail host answers       *)
(***************************************************************************)

Accounts == {"Gmail", "Exchange"}

Mailboxes == {"INBOX"}

SenderFilters == {None, Some(""), Some("AL")}

SubjectFilters == {None, Some("hi"), Some("Can't get message")}

ReadFilters == {None, Some(TRUE), Some(FALSE)}

Limits == {None, Some(0), Some(1), Some(2)}

\* scan_limit's default
default_scan_limit == 200

\* Standard output of a search script: one line per message.
SearchStdout ==
    { "",
      "101|Hi|al@x.com|Mon|false\n102|Re: hi|Bob@x.com|Tue|true\n103|Yo|AL@y.org|Wed|false\n",
      "201|Sale|shop@z.io|Thu|TRUE\n202||me@z.io|Fri|missing value" }

\* Error-stream texts of a failing script.
WhoseErrorTexts ==
    { "Illegal comparison or logical (-1726)",
      "Can't get items 1 thru 50 of messages whose true" }

\* The error of a host that cannot evaluate the query of a filtered search:
\* it names the object it could not get, which is the query as the script
\* wrote it.
QueryPrefix == "set matchedMessages to "

EchoErrorText(script) ==
    LET query == script[Len(script)]
    IN  "Mail got an error: Can't get "
            \o LStrip(SubSeq(query, Len(QueryPrefix) + 1, Len(query))) \o " (-1728)"

OtherErrorTexts ==
    { "Can't get account \"Gmail\".",
      "Can't get mailbox \"INBOX\" of account \"Gmail\".",
      "Can't get message id 101.",
      "Can't get items 1 thru 2 of every message. (-1728)",
      "Mail got an error: Connection is invalid. (-609)\n" }

\* Error texts that carry more than one of the not-found markers.
MixedErrorTexts ==
    { "Can't get mailbox \"INBOX\". Can't get account \"Gmail\".",
      "Can't get message id 101. Can't get mailbox \"INBOX\"." }

ErrorTexts == WhoseErrorTexts \cup OtherErrorTexts \cup MixedErrorTexts

OSErrorTexts == {"[Errno 2] No such file or directory: '/usr/bin/osascript'"}

Failures ==
    {Exit(1, "", t) : t \in ErrorTexts} \cup {TimeoutExpired}
        \cup {OSError(t) : t \in OSErrorTexts}

SearchProcs == {Exit(0, out, "") : out \in SearchStdout} \cup Failures

\* What the subprocess may do when handed a filtered-query script.
FilteredQueryProcs(script) == SearchProcs \cup {Exit(1, "", EchoErrorText(script))}

\* Message-ID lists of ordinary size.
IdLists == {<<>>, <<"101">>, <<"101", "999">>, <<"7\"">>}

\* The largest ID list a caller passes.
MaxIds == 150

\* a list of n message IDs
ManyIds(n) == [i \in 1..n |-> ToString(1000 + i)]

\* ID lists around the bulk ceiling of delete_messages, and the largest.
BulkIdLists ==
    {ManyIds(n) : n \in {max_bulk_delete - 1, max_bulk_delete, max_bulk_delete + 1, MaxIds}}

\* Standard output of a counting script.
CountStdout == {"0", "1", "2\n", "", "missing value"}

MutationProcs == {Exit(0, out, "") : out \in CountStdout} \cup Failures

FlagColors ==
    { "none", "None", "NONE", "orange", "red", "Red", "yellow", "blue", "green",
      "purple", "gray", "GRAY", "grey", "invalid", "" }

Destinations == {"Archive", "Projects/Client Work"}

\* What the client of the send tools passes.
Subjects == {"Hi"}

Bodies == {"Body"}

ToLists == {<<>>, <<"al@x.com">>, <<"not-an-address">>}

CcLists == {None, Some(<<"bob@y.org">>), Some(<<"bob@">>)}

BccLists == {None, Some(<<"eve@z.io">>)}

\* The keyword `confirmed` of a tool call: not passed, True or False.
Confirmations == {None, Some(TRUE), Some(FALSE)}

Report == File("/tmp/report.pdf", TRUE, TRUE, 1024)

Gone == File("/tmp/gone.pdf", FALSE, FALSE, 0)

Installer == File("/tmp/setup.EXE", TRUE, TRUE, 2048)

AttachmentLists == {<<>>, <<Report>>, <<Gone>>, <<Report, Installer>>}

\* Files at and just over the attachment ceiling.
AtCeiling == File("/tmp/video.mov", TRUE, TRUE, max_attachment_size)

OverCeiling == File("/tmp/huge.mov", TRUE, TRUE, max_attachment_size + 1)

Script == File("/tmp/run.sh", TRUE, TRUE, 64)

\* The attachment lists handed to the connector.
ConnectorAttachmentLists ==
    AttachmentLists \cup {<<AtCeiling>>, <<OverCeiling>>, <<Installer>>, <<Report, Script>>}

\* A keyword the caller may add to a send: nothing, or allow_executables=True.
ExecutableOverrides == {None, Some(TRUE)}

\* What the subprocess may do when handed a send script.
SendProcs ==
    { Exit(0, "sent\n", ""), Exit(0, "", ""), TimeoutExpired,
      Exit(1, "", "Mail got an error: Connection is invalid. (-609)\n") }

\* What the client of the mutate-by-ID tools passes, and what the
\* subprocess may do when a tool's connector call reaches it.
ToolIdLists == IdLists \cup {ManyIds(max_bulk_delete + 1)}

ToolFlagColors == {"red", "none", "None", "invalid"}

ToolProcs ==
    {Exit(0, out, "") : out \in {"1", ""}}
        \cup {TimeoutExpired}
        \cup {Exit(1, "", text) : text \in OtherErrorTexts}

\* What the client of create_mailbox passes, and what the subprocess may
\* do with the creation script.
MailboxNames == {"Projects", "", "  ", "../..", "Q3: plans/2026", "./.hidden"}

ParentMailboxes == {None, Some("Archive")}

CreateProcs ==
    { Exit(0, "success\n", ""), Exit(0, "", ""), TimeoutExpired,
      Exit(1, "", "Can't get account \"Gmail\"."),
      Exit(1, "", "Can't get mailbox \"Archive\" of account \"Gmail\"."),
      Exit(1, "", "Mail got an error: Mailbox already exists. (-10000)") }

\* The limits passed to get_recent_operations; 10 is its default.
RecentLimits == {0, 1, 2, 10}

\* The operation log is a list that only grows; the model follows it up to
\* this many entries.
MaxLog == 1

(***************************************************************************)
(* The mail host: how Mail runs the loop of a mutate-by-ID script           *)
(*                                                                         *)
(* Every mutation script walks `repeat with msgId in idList`, `repeat with  *)
(* acc in accounts`, `repeat with mb in mailboxes of acc` and runs its      *)
(* commands inside `try ... end try`; no loop is left early.  The host      *)
(* keeps messages in mailboxes; a message keeps its id when it changes      *)
(* mailbox, a duplicate is a new message with an id of its own, and         *)
(* `delete` puts a message in the Trash mailbox (and erases one already     *)
(* there).  Any command may fail; `try` swallows the failure.               *)
(***************************************************************************)

\* A message of the host: its id, the mailbox holding it, and the message it
\* is a copy of (itself when it is no copy).
Message(id, mailbox, origin) == [id |-> id, mailbox |-> mailbox, origin |-> origin]

trash_mailbox == "Trash"

StartsWith(s, prefix) == Len(s) >= Len(prefix) /\ SubSeq(s, 1, Len(prefix)) = prefix

id_list_prefix == "set idList to {"

\* The items of the script's `set idList to {...}` literal.
ScriptIdList(script) ==
    LET line == CHOOSE l \in {script[i] : i \in DOMAIN script} : StartsWith(l, id_list_prefix)
        inner == SubSeq(line, Len(id_list_prefix) + 1, Len(line) - 1)
        items == Split(inner, ",")
    IN  IF Strip(inner) = "" THEN <<>>
        ELSE [i \in DOMAIN items |-> Strip(items[i])]

dest_mailbox_prefix == "set destMailbox to mailbox \""

dest_mailbox_suffix == "\" of accountRef"

HasDestination(script) ==
    \E i \in DOMAIN script : StartsWith(script[i], dest_mailbox_prefix)

\* The mailbox named by the script's `set destMailbox to mailbox "..."`.
ScriptDestination(script) ==
    LET line == CHOOSE l \in {script[i] : i \in DOMAIN script} :
                    StartsWith(l, dest_mailbox_prefix)
    IN  SubSeq(line, Len(dest_mailbox_prefix) + 1, Len(line) - Len(dest_mailbox_suffix))

account_prefix == "set accountRef to account \""

HasAccount(script) ==
    \E i \in DOMAIN script : StartsWith(script[i], account_prefix)

\* The account named by the script's `set accountRef to account "..."`.
ScriptAccount(script) ==
    LET line == CHOOSE l \in {script[i] : i \in DOMAIN script} :
                    StartsWith(l, account_prefix)
    IN  SubSeq(line, Len(account_prefix) + 1, Len(line) - 1)

\* The one account of the host.
host_account == "Gmail"

IsTryCommand(line) ==
    \/ line \in {"set mailbox of msg to destMailbox", "duplicate msg to destMailbox",
                 "delete msg"}
    \/ StartsWith(line, "set read status of msg to ")
    \/ StartsWith(line, "set flag index of msg to ")
    \/ StartsWith(line, "set flagged status of msg to ")

\* The commands between `set msg to first message of mb whose id is msgId`
\* and the increment of the counter, in order.
TryCommands(script) == SelectSeq(script, IsTryCommand)

Relocate(messages, id, mailbox) ==
    { IF m.id = id THEN [m EXCEPT !.mailbox = mailbox] ELSE m : m \in messages }

\* ids the host gives to duplicates
FreshIds == << "201", "202", "203", "204", "205", "206", "207", "208" >>

FreshId(messages) ==
    FreshIds[CHOOSE i \in DOMAIN FreshIds :
                /\ \A m \in messages : m.id # FreshIds[i]
                /\ \A j \in 1..(i - 1) : \E m \in messages : m.id = FreshIds[j]]

\* One command of the try block, applied to the message `msg` refers to.
RunCommand(messages, id, command, destination) ==
    LET msg == CHOOSE m \in messages : m.id = id
    IN  CASE command = "set mailbox of msg to destMailbox" ->
                 Relocate(messages, id, destination)
          [] command = "duplicate msg to destMailbox" ->
                 messages \cup {Message(FreshId(messages), destination, msg.origin)}
          [] command = "delete msg" ->
                 IF msg.mailbox = trash_mailbox
                 THEN messages \ {msg}
                 ELSE Relocate(messages, id, trash_mailbox)
          [] OTHER -> messages

\* The commands of one try block: the first command that fails ends the
\* block before the counter is incremented; what ran before it stays done.
RECURSIVE RunTry(_, _, _, _, _)
RunTry(messages, id, commands, broken, destination) ==
    IF commands = <<>>
    THEN [store |-> messages, counted |-> TRUE]
    ELSE IF Head(commands) \in broken \/ ~\E m \in messages : m.id = id
    THEN [store |-> messages, counted |-> FALSE]
    ELSE RunTry(RunCommand(messages, id, Head(commands), destination), id,
                Tail(commands), broken, destination)

\* The (msgId, mailbox) pairs in the order the nested loops visit them.
Visits(id_list, order) ==
    [k \in 1..(Len(id_list) * Len(order)) |->
        << id_list[((k - 1) \div Len(order)) + 1], order[((k - 1) % Len(order)) + 1] >>]

\* The nested loops: at each visit, `first message of mb whose id is msgId`
\* either fails (swallowed) or the try block runs.
RECURSIVE RunLoops(_, _, _, _, _, _)
RunLoops(messages, count, visits, commands, broken, destination) ==
    IF visits = <<>>
    THEN [store |-> messages, count |-> count]
    ELSE LET msgId == Head(visits)[1]
             mb == Head(visits)[2]
             block == RunTry(messages, msgId, commands, broken, destination)
         IN  IF ~\E m \in messages : m.id = msgId /\ m.mailbox = mb
             THEN RunLoops(messages, count, Tail(visits), commands, broken, destination)
             ELSE RunLoops(block.store, IF block.counted THEN count + 1 ELSE count,
                           Tail(visits), commands, broken, destination)

\* What Mail does with a mutation script: the store it leaves and what
\* osascript reports.  `order` is the order in which Mail enumerates the
\* mailboxes, `broken` the commands that fail during this run.
RunScript(messages, script, order, broken) ==
    LET destination == IF HasDestination(script) THEN ScriptDestination(script) ELSE ""
        run == RunLoops(messages, 0, Visits(ScriptIdList(script), order),
                        TryCommands(script), broken, destination)
    IN  IF HasAccount(script) /\ ScriptAccount(script) # host_account
        THEN [store |-> messages,
              proc |-> Exit(1, "", "Mail got an error: Can't get account \""
                                   \o ScriptAccount(script) \o "\". (-1728)")]
        ELSE IF HasDestination(script) /\ \A i \in DOMAIN order : order[i] # destination
        THEN [store |-> messages,
              proc |-> Exit(1, "", "Mail got an error: Can't get mailbox \""
                                   \o destination \o "\" of account. (-1728)")]
        ELSE [store |-> run.store, proc |-> Exit(0, ToString(run.count) \o "\n", "")]

\* The message IDs callers pass to the single-message operations.
MessageIds == {"101", "abc"}

\* What the host answers to a reply or forward script.
ReplyProcs ==
    { Exit(0, "67890\n", ""), TimeoutExpired,
      Exit(1, "", "execution error: Message not found (-2700)") }

\* The seven fields of the messages a single-message fetch may find:
\* id, subject, sender, date, read, flagged, content.
MessageFields ==
    { << "101", "Hi", "al@x.com", "Mon", "true", "false", "Hello" >>,
      << "101", "Hi", "al@x.com", "Mon", "TRUE", "true", "a|b|c" >>,
      << "101", "", "al@x.com", "Mon", "false", "False", "" >> }

\* What the host answers to a get_message script: a message's fields joined
\* by pipes, a line with too few fields, or a failure.
GetProcs ==
    { Exit(0, Join(fields, "|") \o "\n", "") : fields \in MessageFields }
        \cup { Exit(0, "101|Hi|al@x.com|Mon|true|false", ""),
               Exit(0, "101|Hi|al@x.com", ""), Exit(0, "", ""), TimeoutExpired,
               Exit(1, "", "execution error: Message not found (-2700)"),
               Exit(1, "", "Can't get message id 101.") }

\* The mailboxes of the host's account, in the orders Mail may enumerate them.
MailboxOrders ==
    { << "INBOX", "Archive", "Trash" >>, << "Archive", "Trash", "INBOX" >> }

\* The first position at or after `from` where sub occurs in s.
IndexOf(s, sub, from) ==
    CHOOSE i \in from..(Len(s) + 1) :
        /\ i = Len(s) + 1 \/ SubSeq(s, i, i + Len(sub) - 1) = sub
        /\ \A j \in from..(i - 1) : SubSeq(s, j, j + Len(sub) - 1) # sub

\* The text of s between the first `open` and the `close` that follows it.
Between(s, open, close) ==
    LET a == IndexOf(s, open, 1) + Len(open)
    IN  SubSeq(s, a, IndexOf(s, close, a) - 1)

\* The order in which a mailbox lists its messages.
ListingOrder == << "101", "102" >> \o FreshIds

\* The messages of a mailbox, as Mail lists them.
Listing(messages, mailbox) ==
    LET held == {i \in DOMAIN ListingOrder :
                    \E m \in messages : m.id = ListingOrder[i] /\ m.mailbox = mailbox}
    IN  [k \in 1..Cardinality(held) |->
            LET i == CHOOSE j \in held : Cardinality({h \in held : h <= j}) = k
            IN  CHOOSE m \in messages : m.id = ListingOrder[i]]

\* Subject, sender, date received and read status of the host's messages.
Headers(origin) ==
    IF origin = "101" THEN << "Hi", "al@x.com", "Mon", "false" >>
    ELSE << "Re: hi", "Bob@x.com", "Tue", "true" >>

\* msgId & "|" & msgSubject & "|" & msgSender & "|" & msgDate & "|" & msgRead
RecordLine(m) == Join(<< m.id >> \o Headers(m.origin), "|")

\* The message passes the whose clause of the query; `contains` ignores case.
PassesWhose(m, query) ==
    /\ Contains(query, "sender contains \"") =>
           Contains(Lower(Headers(m.origin)[2]),
                    Lower(Between(query, "sender contains \"", "\"")))
    /\ Contains(query, "subject contains \"") =>
           Contains(Lower(Headers(m.origin)[1]),
                    Lower(Between(query, "subject contains \"", "\"")))
    /\ Contains(query, "read status is true") => Headers(m.origin)[4] = "true"
    /\ Contains(query, "read status is false") => Headers(m.origin)[4] = "false"

FirstMessages(listing, n) == SubSeq(listing, 1, IF n < Len(listing) THEN n ELSE Len(listing))

\* The texts with which a host may refuse a range longer than the list:
\* naming the reference it was asked for, or the list it had evaluated.
RangeErrorForms == {"reference", "list"}

\* What Mail does with a search script: the filtered query or the index scan.
RunSearch(messages, script, form) ==
    LET mailbox == Between(script[2], "set mailboxRef to mailbox \"", "\"")
        listing == Listing(messages, mailbox)
        query == script[Len(script)]
        passing == {i \in DOMAIN listing : PassesWhose(listing[i], query)}
        matched == [k \in 1..Cardinality(passing) |->
                       listing[CHOOSE i \in passing :
                                   Cardinality({j \in passing : j <= i}) = k]]
        wanted == IF Contains(query, "items 1 thru ")
                  THEN ToInt(Between(query, "items 1 thru ", " of"))
                  ELSE Len(matched)
        scan_limit == ToInt(Between(script[3], "if fetchCount > ", " then"))
        Lines(found) == Join([i \in DOMAIN found |-> RecordLine(found[i])], "\n")
    IN  IF ScriptAccount(script) # host_account
        THEN Exit(1, "", "Mail got an error: Can't get account \""
                         \o ScriptAccount(script) \o "\". (-1728)")
        ELSE IF ~Contains(query, "whose")
        THEN Exit(0, Lines(FirstMessages(listing, scan_limit)) \o "\n", "")
        ELSE IF wanted > Len(matched)
        THEN Exit(1, "",
                  IF form = "reference"
                  THEN "Mail got an error: Can't get"
                           \o SubSeq(query, Len(QueryPrefix) + 1, Len(query))
                           \o ". Invalid index. (-1719)"
                  ELSE "Can't get items 1 thru " \o ToString(wanted) \o " of {"
                           \o Join([i \in DOMAIN matched |-> "message id " \o matched[i].id],
                                   ", ") \o "}. (-1728)")
        ELSE Exit(0, Lines(FirstMessages(matched, wanted)) \o "\n", "")

\* The filters and limits of the searches the host answers.
HostSenderFilters == {None, Some("AL"), Some("al" \o NUL)}

HostLimits == {None, Some(1), Some(2)}

\* The accounts callers name when the host answers: its own and a stranger.
HostCallAccounts == {"Gmail", "Nobody"}

\* What the host holds before the first call: every message in one mailbox.
HostStores ==
    { {},
      { Message("101", "INBOX", "101") },
      { Message("101", "INBOX", "101"), Message("102", "Archive", "102") },
      { Message("101", "INBOX", "101"), Message("102", "INBOX", "102") } }

\* Duplicates add messages; the model follows the store up to this size.
MaxMessages == 3

\* The commands that may fail while a script runs: none, or one of its own.
Breakages(sent) ==
    IF sent = <<>> THEN {{}}
    ELSE {{}} \cup { {TryCommands(sent[1].script)[i]} :
                        i \in DOMAIN TryCommands(sent[1].script) }

\* The host's answer to the script a call sends, if it sends one.
HostAnswer(messages, sent, order, broken) ==
    IF sent = <<>> THEN [store |-> messages, proc |-> TimeoutExpired]
    ELSE RunScript(messages, sent[1].script, order, broken)

(***************************************************************************)
(* The state machine                                                       *)
(***************************************************************************)

Init ==
    /\ whose_unsupported_accounts = {}
    /\ operations = <<>>
    /\ op = "idle"
    /\ args = <<>>
    /\ calls = <<>>
    /\ mail_calls = <<>>
    /\ outcome = Return(None)
    /\ store = {}

\* A bridge result that makes search_messages fall back to the index scan.
FallsBack(cache, account, proc) ==
    LET result == _run_applescript(proc)
    IN  /\ ~known_whose_unsupported(cache, account)
        /\ result.kind = "raise"
        /\ CaughtAsAppleScriptError(result.exc)
        /\ _is_whose_error(result.msg)

\* A call of AppleMailConnector.search_messages.
SearchMessages ==
    /\ op = "idle"
    /\ \E account \in Accounts, mailbox \in Mailboxes,
          sender_contains \in SenderFilters, subject_contains \in SubjectFilters,
          read_status \in ReadFilters, limit \in Limits :
      \E proc1 \in IF known_whose_unsupported(whose_unsupported_accounts, account)
                   THEN SearchProcs
                   ELSE FilteredQueryProcs(whose_script(account, mailbox, sender_contains,
                                               subject_contains, read_status, limit)) :
      \E proc2 \in IF FallsBack(whose_unsupported_accounts, account, proc1)
                   THEN SearchProcs ELSE {proc1} :
        LET r == search_messages(whose_unsupported_accounts, account, mailbox,
                                 sender_contains, subject_contains, read_status,
                                 limit, default_scan_limit, proc1, proc2)
        IN  /\ whose_unsupported_accounts' = r.cache
            /\ op' = "search_messages"
            /\ args' = [account |-> account, mailbox |-> mailbox,
                        sender_contains |-> sender_contains,
                        subject_contains |-> subject_contains,
                        read_status |-> read_status, limit |-> limit,
                        scan_limit |-> default_scan_limit]
            /\ calls' = r.calls
            /\ outcome' = r.outcome
            /\ UNCHANGED <<operations, mail_calls, store>>

\* A call of a connector method that leaves the connector's fields alone.
ConnectorCall(name, arguments, r) ==
    /\ op' = name
    /\ args' = arguments
    /\ calls' = r.calls
    /\ outcome' = r.outcome
    /\ UNCHANGED <<whose_unsupported_accounts, operations, mail_calls, store>>

\* A call of AppleMailConnector.mark_as_read.
MarkAsRead ==
    /\ op = "idle"
    /\ \E message_ids \in IdLists, read \in BOOLEAN, proc \in MutationProcs :
         ConnectorCall("mark_as_read",
                       [message_ids |-> message_ids, read |-> read],
                       mark_as_read(message_ids, read, proc))

\* A call of AppleMailConnector.move_messages.
MoveMessages ==
    /\ op = "idle"
    /\ \E message_ids \in IdLists, destination_mailbox \in Destinations,
          account \in Accounts, gmail_mode \in BOOLEAN, proc \in MutationProcs :
         ConnectorCall("move_messages",
                       [message_ids |-> message_ids,
                        destination_mailbox |-> destination_mailbox,
                        account |-> account, gmail_mode |-> gmail_mode],
                       move_messages(message_ids, destination_mailbox, account,
                                     gmail_mode, proc))

\* A call of AppleMailConnector.flag_message.
FlagMessage ==
    /\ op = "idle"
    /\ \E message_ids \in IdLists, flag_color \in FlagColors, proc \in MutationProcs :
         ConnectorCall("flag_message",
                       [message_ids |-> message_ids, flag_color |-> flag_color],
                       flag_message(message_ids, flag_color, proc))

\* A call of AppleMailConnector.delete_messages.
DeleteMessages ==
    /\ op = "idle"
    /\ \E message_ids \in IdLists \cup BulkIdLists, permanent \in BOOLEAN,
          skip_bulk_check \in BOOLEAN, proc \in MutationProcs :
         ConnectorCall("delete_messages",
                       [message_ids |-> message_ids, permanent |-> permanent,
                        skip_bulk_check |-> skip_bulk_check],
                       delete_messages(message_ids, permanent, skip_bulk_check, proc))

\* A call of a tool of server.py: the tool's effect on the operation log,
\* on the connector and on the bridge, and its result.
ToolCall(name, arguments, r) ==
    /\ op' = name
    /\ args' = arguments
    /\ operations' = r.operations
    /\ mail_calls' = r.mail_calls
    /\ calls' = r.calls
    /\ outcome' = r.outcome
    /\ UNCHANGED <<whose_unsupported_accounts, store>>

\* A call of the tool send_email.
ToolSendEmail ==
    /\ op = "idle"
    /\ Len(operations) < MaxLog
    /\ \E subject \in Subjects, body \in Bodies, to \in ToLists, cc \in CcLists,
          bcc \in BccLists, confirmed \in Confirmations, proc \in SendProcs :
         ToolCall("tool_send_email",
                  [subject |-> subject, body |-> body, to |-> to, cc |-> cc,
                   bcc |-> bcc, confirmed |-> confirmed],
                  tool_send_email(operations, subject, body, to, cc, bcc, confirmed, proc))

\* A call of the tool send_email_with_attachments.
ToolSendEmailWithAttachments ==
    /\ op = "idle"
    /\ Len(operations) < MaxLog
    /\ \E subject \in Subjects, body \in Bodies, to \in ToLists,
          attachments \in AttachmentLists, cc \in CcLists, bcc \in BccLists,
          confirmed \in Confirmations, proc \in SendProcs :
         ToolCall("tool_send_email_with_attachments",
                  [subject |-> subject, body |-> body, to |-> to,
                   attachments |-> attachments, cc |-> cc, bcc |-> bcc,
                   confirmed |-> confirmed],
                  tool_send_email_with_attachments(operations, subject, body, to,
                                                   attachments, cc, bcc, confirmed, proc))

\* A call of the tool mark_as_read.
ToolMarkAsRead ==
    /\ op = "idle"
    /\ Len(operations) < MaxLog
    /\ \E message_ids \in ToolIdLists, read \in BOOLEAN, proc \in ToolProcs :
         ToolCall("tool_mark_as_read",
                  [message_ids |-> message_ids, read |-> read],
                  tool_mark_as_read(operations, message_ids, read, proc))

\* A call of the tool move_messages.
ToolMoveMessages ==
    /\ op = "idle"
    /\ \E message_ids \in ToolIdLists, destination_mailbox \in Destinations,
          account \in Accounts, gmail_mode \in BOOLEAN, proc \in ToolProcs :
         ToolCall("tool_move_messages",
                  [message_ids |-> message_ids,
                   destination_mailbox |-> destination_mailbox,
                   account |-> account, gmail_mode |-> gmail_mode],
                  tool_move_messages(operations, message_ids, destination_mailbox,
                                     account, gmail_mode, proc))

\* A call of the tool flag_message.
ToolFlagMessage ==
    /\ op = "idle"
    /\ \E message_ids \in ToolIdLists, flag_color \in ToolFlagColors, proc \in ToolProcs :
         ToolCall("tool_flag_message",
                  [message_ids |-> message_ids, flag_color |-> flag_color],
                  tool_flag_message(operations, message_ids, flag_color, proc))

\* A call of the tool delete_messages.
ToolDeleteMessages ==
    /\ op = "idle"
    /\ \E message_ids \in ToolIdLists, permanent \in BOOLEAN, proc \in ToolProcs :
         ToolCall("tool_delete_messages",
                  [message_ids |-> message_ids, permanent |-> permanent],
                  tool_delete_messages(operations, message_ids, permanent, proc))

\* A call of the tool create_mailbox.
ToolCreateMailbox ==
    /\ op = "idle"
    /\ \E account \in Accounts, name \in MailboxNames,
          parent_mailbox \in ParentMailboxes, proc \in CreateProcs :
         ToolCall("tool_create_mailbox",
                  [account |-> account, name |-> name, parent_mailbox |-> parent_mailbox],
                  tool_create_mailbox(operations, account, name, parent_mailbox, proc))

\* A call of AppleMailConnector.send_email_with_attachments; the method has
\* no allow_executables parameter, so passing one is a TypeError.
SendEmailWithAttachments ==
    /\ op = "idle"
    /\ \E attachments \in ConnectorAttachmentLists, allow_executables \in ExecutableOverrides,
          proc \in SendProcs :
         ConnectorCall("send_email_with_attachments",
                       [subject |-> "Hi", body |-> "Body", to |-> <<"al@x.com">>,
                        attachments |-> attachments, cc |-> None, bcc |-> None,
                        allow_executables |-> allow_executables],
                       IF allow_executables # None
                       THEN [calls |-> <<>>,
                             outcome |-> UnexpectedKeyword(
                                 "AppleMailConnector.send_email_with_attachments",
                                 "allow_executables")]
                       ELSE send_email_with_attachments("Hi", "Body", <<"al@x.com">>,
                                                        attachments, None, None, proc))

\* A call of AppleMailConnector.get_message.
GetMessage ==
    /\ op = "idle"
    /\ \E message_id \in MessageIds, include_content \in BOOLEAN, proc \in GetProcs :
         ConnectorCall("get_message",
                       [message_id |-> message_id, include_content |-> include_content],
                       get_message(message_id, include_content, proc))

\* A call of AppleMailConnector.reply_to_message.
ReplyToMessage ==
    /\ op = "idle"
    /\ \E message_id \in MessageIds, body \in Bodies, reply_all \in BOOLEAN,
          proc \in ReplyProcs :
         ConnectorCall("reply_to_message",
                       [message_id |-> message_id, body |-> body, reply_all |-> reply_all],
                       reply_to_message(message_id, body, reply_all, proc))

\* A call of AppleMailConnector.forward_message.
ForwardMessage ==
    /\ op = "idle"
    /\ \E message_id \in MessageIds, to \in ToLists, body \in Bodies, cc \in CcLists,
          bcc \in BccLists, proc \in ReplyProcs :
         ConnectorCall("forward_message",
                       [message_id |-> message_id, to |-> to, body |-> body,
                        cc |-> cc, bcc |-> bcc],
                       forward_message(message_id, to, body, cc, bcc, proc))

\* A connector call answered by the mail host, which keeps what the
\* script did to its messages.
HostCall(name, arguments, r, host) ==
    /\ Cardinality(host.store) <= MaxMessages
    /\ op' = name
    /\ args' = arguments
    /\ calls' = r.calls
    /\ outcome' = r.outcome
    /\ store' = host.store
    /\ UNCHANGED <<whose_unsupported_accounts, operations, mail_calls>>

\* search_messages, answered by the host from the messages it holds.
HostSearchMessages ==
    /\ op = "idle"
    /\ \E sender_contains \in HostSenderFilters, read_status \in ReadFilters,
          limit \in HostLimits, form \in RangeErrorForms :
         LET scan == direct_script(host_account, "INBOX", default_scan_limit)
             first == IF known_whose_unsupported(whose_unsupported_accounts, host_account)
                      THEN scan
                      ELSE whose_script(host_account, "INBOX", sender_contains, None,
                                        read_status, limit)
             r == search_messages(whose_unsupported_accounts, host_account, "INBOX",
                                  sender_contains, None, read_status, limit,
                                  default_scan_limit, RunSearch(store, first, form),
                                  RunSearch(store, scan, form))
         IN  /\ whose_unsupported_accounts' = r.cache
             /\ op' = "search_messages"
             /\ args' = [account |-> host_account, mailbox |-> "INBOX",
                         sender_contains |-> sender_contains, subject_contains |-> None,
                         read_status |-> read_status, limit |-> limit,
                         scan_limit |-> default_scan_limit]
             /\ calls' = r.calls
             /\ outcome' = r.outcome
             /\ UNCHANGED <<operations, mail_calls, store>>

\* mark_as_read, run by the host.
HostMarkAsRead ==
    /\ op = "idle"
    /\ \E message_ids \in IdLists, read \in BOOLEAN, order \in MailboxOrders :
         LET sent == mark_as_read(message_ids, read, TimeoutExpired).calls
         IN  \E broken \in Breakages(sent) :
               LET host == HostAnswer(store, sent, order, broken)
               IN  HostCall("mark_as_read",
                            [message_ids |-> message_ids, read |-> read],
                            mark_as_read(message_ids, read, host.proc), host)

\* move_messages, run by the host.
HostMoveMessages ==
    /\ op = "idle"
    /\ \E message_ids \in IdLists, destination_mailbox \in Destinations,
          account \in HostCallAccounts, gmail_mode \in BOOLEAN, order \in MailboxOrders :
         LET sent == move_messages(message_ids, destination_mailbox, account,
                                   gmail_mode, TimeoutExpired).calls
         IN  \E broken \in Breakages(sent) :
               LET host == HostAnswer(store, sent, order, broken)
               IN  HostCall("move_messages",
                            [message_ids |-> message_ids,
                             destination_mailbox |-> destination_mailbox,
                             account |-> account, gmail_mode |-> gmail_mode],
                            move_messages(message_ids, destination_mailbox, account,
                                          gmail_mode, host.proc), host)

\* flag_message, run by the host.
HostFlagMessage ==
    /\ op = "idle"
    /\ \E message_ids \in IdLists, flag_color \in {"red", "none"},
          order \in MailboxOrders :
         LET sent == flag_message(message_ids, flag_color, TimeoutExpired).calls
         IN  \E broken \in Breakages(sent) :
               LET host == HostAnswer(store, sent, order, broken)
               IN  HostCall("flag_message",
                            [message_ids |-> message_ids, flag_color |-> flag_color],
                            flag_message(message_ids, flag_color, host.proc), host)

\* delete_messages, run by the host.
HostDeleteMessages ==
    /\ op = "idle"
    /\ \E message_ids \in IdLists, permanent \in BOOLEAN, order \in MailboxOrders :
         LET sent == delete_messages(message_ids, permanent, FALSE, TimeoutExpired).calls
         IN  \E broken \in Breakages(sent) :
               LET host == HostAnswer(store, sent, order, broken)
               IN  HostCall("delete_messages",
                            [message_ids |-> message_ids, permanent |-> permanent,
                             skip_bulk_check |-> FALSE],
                            delete_messages(message_ids, permanent, FALSE, host.proc),
                            host)

\* A call of operation_logger.get_recent_operations.
GetRecentOperations ==
    /\ op = "idle"
    /\ \E limit \in RecentLimits :
         /\ op' = "get_recent_operations"
         /\ args' = [limit |-> limit]
         /\ calls' = <<>>
         /\ mail_calls' = <<>>
         /\ outcome' = Return(get_recent_operations(operations, limit))
         /\ UNCHANGED <<whose_unsupported_accounts, operations, store>>

\* The call is over: its result is with the caller, and the process
\* (single-threaded, one call at a time) waits for the next one.  The
\* connector and the operation log live on.
AwaitNextCall ==
    /\ op # "idle"
    /\ op' = "idle"
    /\ args' = <<>>
    /\ calls' = <<>>
    /\ mail_calls' = <<>>
    /\ outcome' = Return(None)
    /\ UNCHANGED <<whose_unsupported_accounts, operations, store>>

Next ==
    \/ SearchMessages
    \/ MarkAsRead
    \/ MoveMessages
    \/ FlagMessage
    \/ DeleteMessages
    \/ SendEmailWithAttachments
    \/ GetMessage
    \/ ReplyToMessage
    \/ ForwardMessage
    \/ AwaitNextCall

Spec == Init /\ [][Next]_vars

\* The server process: a client calls its tools one at a time.
ToolNext ==
    \/ ToolSendEmail
    \/ ToolSendEmailWithAttachments
    \/ ToolMarkAsRead
    \/ ToolMoveMessages
    \/ ToolFlagMessage
    \/ ToolDeleteMessages
    \/ ToolCreateMailbox
    \/ GetRecentOperations
    \/ AwaitNextCall

ToolSpec == Init /\ [][ToolNext]_vars

\* The connector driving a mail host that runs its mutation scripts.
HostInit ==
    /\ whose_unsupported_accounts = {}
    /\ operations = <<>>
    /\ op = "idle"
    /\ args = <<>>
    /\ calls = <<>>
    /\ mail_calls = <<>>
    /\ outcome = Return(None)
    /\ store \in HostStores

HostNext ==
    \/ HostSearchMessages
    \/ HostMarkAsRead
    \/ HostMoveMessages
    \/ HostFlagMessage
    \/ HostDeleteMessages
    \/ AwaitNextCall

HostSpec == HostInit /\ [][HostNext]_vars

(***************************************************************************)
(* Properties                                                              *)
(***************************************************************************)

\* The script carries a whose clause.
HasWhoseClause(script) == \E i \in DOMAIN script : Contains(script[i], "whose")

\* The script fetches messages by index and carries no whose clause.
IsIndexScan(script) ==
    /\ \E i \in DOMAIN script : Contains(script[i], "messages 1 thru")
    /\ ~HasWhoseClause(script)

\* The two whose-unsupported signatures, as the specification words them.
MatchesWhoseSignature(text) ==
    \/ Contains(text, "Illegal comparison or logical")
    \/ Contains(text, "Can't get items") /\ Contains(text, "whose")

\* A search_messages call starts in this step.
SearchStep == op = "idle" /\ op' = "search_messages"

\* What local filtering makes of the output of the i-th bridge invocation.
ScanFiltered(invocations, arguments, i) ==
    Return(_filter_messages(_parse_message_results(invocations[i].result.value),
                            arguments.sender_contains, arguments.subject_contains,
                            arguments.read_status, arguments.limit))

\* C1: a search for an account not in the whose-unsupported cache issues
\* the filtered (whose) query first; whenever the bridge raises an error
\* whose text matches a whose-unsupported signature, the account is added
\* to the cache, the same call runs the index scan, and the call returns
\* the scan-filtered records instead of raising that error.
C1_WhoseErrorFallsBackToScan ==
    [][ (SearchStep /\ args'.account \notin whose_unsupported_accounts) =>
          /\ HasWhoseClause(calls'[1].script)
          /\ ( /\ calls'[1].result.kind = "raise"
               /\ MatchesWhoseSignature(calls'[1].result.msg) ) =>
                 /\ args'.account \in whose_unsupported_accounts'
                 /\ Len(calls') = 2
                 /\ IsIndexScan(calls'[2].script)
                 /\ calls'[2].result.kind = "return" =>
                        outcome' = ScanFiltered(calls', args', 2)
      ]_vars

\* C2: a search for an account that is in the whose-unsupported cache
\* makes exactly one bridge invocation, the index scan, with no whose
\* clause.
C2_CachedAccountScansOnce ==
    [][ (SearchStep /\ args'.account \in whose_unsupported_accounts) =>
          /\ Len(calls') = 1
          /\ IsIndexScan(calls'[1].script)
          /\ ~HasWhoseClause(calls'[1].script)
      ]_vars

C2_Witness ==
    /\ op = "search_messages"
    /\ args.account \in whose_unsupported_accounts
    /\ Len(calls) = 1
    /\ IsIndexScan(calls[1].script)
    /\ outcome.kind = "return"
    /\ Len(outcome.value) = 2

\* C3: no step removes an account from the whose-unsupported cache.
C3_CacheOnlyGrows ==
    [][whose_unsupported_accounts \subseteq whose_unsupported_accounts']_vars

C3_Witness ==
    /\ whose_unsupported_accounts = Accounts
    /\ op \in {"search_messages", "delete_messages", "flag_message"}
    /\ outcome.kind = "raise"

\* C4: when the filtered query fails with an error matching no
\* whose-unsupported signature, that error is the call's outcome, no
\* second invocation is made and the cache is unchanged.
C4_OtherErrorPropagates ==
    [][ ( /\ SearchStep
          /\ args'.account \notin whose_unsupported_accounts
          /\ calls'[1].result.kind = "raise"
          /\ ~MatchesWhoseSignature(calls'[1].result.msg) ) =>
          /\ outcome' = calls'[1].result
          /\ Len(calls') = 1
          /\ whose_unsupported_accounts' = whose_unsupported_accounts
      ]_vars

C4_Witness ==
    /\ op = "search_messages"
    /\ args.account \notin whose_unsupported_accounts
    /\ Len(calls) = 1
    /\ HasWhoseClause(calls[1].script)
    /\ outcome.kind = "raise"
    /\ outcome.exc = "MailAppleScriptError"
    /\ Contains(outcome.msg, "Can't get items")

\* C5: delete_messages with the bulk guard enabled raises a validation
\* error and calls the bridge zero times for more than 100 IDs, and accepts
\* exactly 100; with the guard waived, more than 100 IDs go to the bridge.
C5_BulkGuard ==
    op = "delete_messages" =>
        LET n == Len(args.message_ids)
        IN  /\ (n > 100 /\ ~args.skip_bulk_check) =>
                 /\ outcome.kind = "raise"
                 /\ outcome.exc = "ValueError"
                 /\ calls = <<>>
            /\ (n > 100 /\ args.skip_bulk_check) => Len(calls) = 1
            /\ (n = 100 /\ ~args.skip_bulk_check) =>
                 /\ Len(calls) = 1
                 /\ outcome = count_result(calls[1])

C5_Witness ==
    /\ op = "delete_messages"
    /\ Len(args.message_ids) = 150
    /\ ~args.skip_bulk_check
    /\ outcome.kind = "raise"
    /\ calls = <<>>

\* A send tool was called with recipients that pass validation and, for
\* send_email_with_attachments, with attachments that all exist.
ValidSendCall ==
    /\ op \in {"tool_send_email", "tool_send_email_with_attachments"}
    /\ args.to # <<>>
    /\ \A i \in DOMAIN args.to : validate_email(args.to[i])
    /\ \A i \in DOMAIN OrEmpty(args.cc) : validate_email(OrEmpty(args.cc)[i])
    /\ op = "tool_send_email_with_attachments" =>
           \A i \in DOMAIN args.attachments : args.attachments[i].exists

\* C6: a send tool called with valid recipients and without confirmed=True
\* answers success=false, error_type "confirmation_required" and
\* confirmation_required=true, and calls the connector's send zero times.
C6_UnconfirmedSendAsksForConfirmation ==
    (ValidSendCall /\ args.confirmed = None) =>
        /\ mail_calls = <<>>
        /\ outcome.kind = "return"
        /\ outcome.value.success = FALSE
        /\ outcome.value.error_type = "confirmation_required"
        /\ "confirmation_required" \in DOMAIN outcome.value
        /\ outcome.value.confirmation_required = TRUE

\* C7: a send tool called with valid recipients and confirmed=True calls
\* the connector's send exactly once, and its success flag is the
\* connector's boolean result, a false result giving error_type
\* "send_error".
C7_ConfirmedSendMirrorsConnector ==
    (ValidSendCall /\ args.confirmed = Some(TRUE)) =>
        /\ Len(mail_calls) = 1
        /\ outcome.kind = "return"
        /\ mail_calls[1].outcome = Return(TRUE) => outcome.value.success = TRUE
        /\ mail_calls[1].outcome = Return(FALSE) =>
               /\ outcome.value.success = FALSE
               /\ outcome.value.error_type = "send_error"

\* The flag index and the flagged status a flag_message script sets.
FlagIndexLine(script) == script[2]

FlaggedLine(script) == script[3]

\* C8: in the script of every accepted flag_message call, flag index -1
\* comes with flagged status false and every index 0..6 with flagged
\* status true.
C8_FlagIndexAgreesWithFlagged ==
    (op = "flag_message" /\ calls # <<>>) =>
        LET script == calls[1].script
        IN  /\ FlagIndexLine(script) = "set flag index of msg to -1"
                 => FlaggedLine(script) = "set flagged status of msg to false"
            /\ (\E i \in 0..6 :
                    FlagIndexLine(script) = "set flag index of msg to " \o ToString(i))
                 => FlaggedLine(script) = "set flagged status of msg to true"

\* The 8-entry flag color enumeration.
FlagColorEnumeration ==
    {"none", "orange", "red", "yellow", "blue", "green", "purple", "gray"}

UnknownColor(color) == Lower(color) \notin FlagColorEnumeration

\* C9 as claimed: flag_message with a color outside the enumeration raises
\* a validation error and calls the bridge zero times, for every ID list,
\* the empty one included.
C9_UnknownColorAlwaysRaises ==
    (op = "flag_message" /\ UnknownColor(args.flag_color)) =>
        /\ outcome.kind = "raise"
        /\ outcome.exc = "ValueError"
        /\ calls = <<>>

\* C9 as amended: flag_message with a color outside the enumeration calls
\* the bridge zero times; it raises a validation error for every
\* non-empty ID list, and returns 0 for the empty list.
C9_UnknownColorRaisesUnlessEmpty ==
    (op = "flag_message" /\ UnknownColor(args.flag_color)) =>
        /\ calls = <<>>
        /\ args.message_ids # <<>> =>
               (outcome.kind = "raise" /\ outcome.exc = "ValueError")
        /\ args.message_ids = <<>> => outcome = Return(0)

C9_Witness ==
    /\ op = "flag_message"
    /\ args.flag_color = "invalid"
    /\ Len(args.message_ids) = 2
    /\ outcome.kind = "raise"
    /\ outcome.exc = "ValueError"
    /\ calls = <<>>

\* C10: mark_as_read, move_messages and delete_messages with an empty ID
\* list return 0 and call the bridge zero times, whatever the other
\* arguments.
C10_EmptyListShortCircuits ==
    (op \in {"mark_as_read", "move_messages", "delete_messages"}
        /\ args.message_ids = <<>>) =>
        /\ outcome = Return(0)
        /\ calls = <<>>

C10_Witness ==
    /\ op = "delete_messages"
    /\ args.message_ids = <<>>
    /\ args.permanent
    /\ ~args.skip_bulk_check
    /\ outcome = Return(0)
    /\ calls = <<>>

\* A mutate-by-ID tool was called with an empty ID list.
EmptyIdToolCall ==
    /\ op \in {"tool_mark_as_read", "tool_move_messages", "tool_flag_message",
               "tool_delete_messages"}
    /\ args.message_ids = <<>>

\* C11: each mutate-by-ID tool called with an empty ID list returns a
\* success result with a zero count, not an error, and neither the
\* connector nor the bridge is called.
C11_EmptyIdListToolSucceedsWithZero ==
    EmptyIdToolCall =>
        /\ outcome.kind = "return"
        /\ outcome.value.success = TRUE
        /\ \E k \in {"count", "updated"} :
               k \in DOMAIN outcome.value /\ outcome.value[k] = 0
        /\ calls = <<>>

\* C12: the send_email tool called with no 'to' recipient answers with a
\* validation error saying at least one recipient is required, and calls
\* neither the connector nor the bridge, whatever cc and bcc hold.
C12_NoToRecipientIsValidationError ==
    (op = "tool_send_email" /\ args.to = <<>> /\ args.confirmed = None) =>
        /\ outcome.kind = "return"
        /\ outcome.value.success = FALSE
        /\ outcome.value.error_type = "validation_error"
        /\ Contains(Lower(outcome.value.error), "at least one")
        /\ Contains(Lower(outcome.value.error), "recipient")
        /\ Contains(Lower(outcome.value.error), "required")
        /\ mail_calls = <<>>
        /\ calls = <<>>

C12_Witness ==
    /\ op = "tool_send_email"
    /\ args.to = <<>>
    /\ args.cc = Some(<<"bob@y.org">>)
    /\ args.bcc = Some(<<"eve@z.io">>)
    /\ args.confirmed = None
    /\ outcome.kind = "return"
    /\ outcome.value.error_type = "validation_error"
    /\ calls = <<>>

\* The error kind the claimed precedence gives an error text.
ClaimedErrorKind(text) ==
    IF Contains(text, "Can't get account") THEN "MailAccountNotFoundError"
    ELSE IF Contains(text, "Can't get mailbox") THEN "MailMailboxNotFoundError"
    ELSE IF Contains(text, "Can't get message") THEN "MailMessageNotFoundError"
    ELSE "MailAppleScriptError"

\* C13: every bridge invocation whose subprocess exits non-zero raises the
\* error kind its error text selects, account before mailbox before
\* message before the generic script error, with the error text as
\* message; every invocation that exits zero returns the stripped standard
\* output.
C13_ErrorTextClassifiedByPrecedence ==
    \A i \in DOMAIN calls :
        LET proc == calls[i].proc
            result == calls[i].result
        IN  proc.kind = "exit" =>
                IF proc.returncode # 0
                THEN /\ result.kind = "raise"
                     /\ result.exc = ClaimedErrorKind(proc.stderr)
                     /\ result.msg = Strip(proc.stderr)
                ELSE result = Return(Strip(proc.stdout))

C13_Witness ==
    /\ calls # <<>>
    /\ calls[1].proc.kind = "exit"
    /\ Contains(calls[1].proc.stderr, "Can't get mailbox")
    /\ Contains(calls[1].proc.stderr, "Can't get account")
    /\ calls[1].result.kind = "raise"
    /\ calls[1].result.exc = "MailAccountNotFoundError"

\* C14 as claimed: a bridge invocation whose wait expires raises an error
\* of a kind other than the generic script error, that error is the
\* outcome of the operation, and the operation invokes the bridge no more.
C14_TimeoutIsItsOwnKind ==
    \A i \in DOMAIN calls :
        calls[i].proc.kind = "timeout" =>
            /\ calls[i].result.kind = "raise"
            /\ calls[i].result.exc # "MailAppleScriptError"
            /\ outcome = calls[i].result
            /\ i = Len(calls)

\* C14 as amended: a bridge invocation whose wait expires raises the
\* generic script error with the text "Script execution timeout after 60s",
\* that error is the outcome of the operation, and the operation invokes
\* the bridge no more.
C14_TimeoutIsFinalScriptError ==
    \A i \in DOMAIN calls :
        calls[i].proc.kind = "timeout" =>
            /\ calls[i].result =
                   Raise("MailAppleScriptError", "Script execution timeout after 60s")
            /\ outcome = calls[i].result
            /\ i = Len(calls)

C14_Witness ==
    /\ op = "search_messages"
    /\ Len(calls) = 1
    /\ HasWhoseClause(calls[1].script)
    /\ calls[1].proc.kind = "timeout"
    /\ outcome.kind = "raise"

\* A tool call that binds to the tool's signature starts in this step.
ToolCallStep == op = "idle" /\ op' # "idle" /\ outcome'.kind = "return"

\* C15: every tool call, whatever its outcome, makes the operation log
\* exactly one entry longer.
C15_EveryToolCallLogsOnce ==
    [][ToolCallStep => Len(operations') = Len(operations) + 1]_vars

\* A tool was called with the arguments of its signature.
BoundToolCall ==
    /\ op \in {"tool_send_email", "tool_send_email_with_attachments",
               "tool_mark_as_read", "tool_move_messages", "tool_flag_message",
               "tool_delete_messages", "tool_create_mailbox"}
    /\ "confirmed" \in DOMAIN args => args.confirmed = None

\* C16: every tool call returns a result that carries a success flag,
\* and a result whose success flag is false also carries an error message
\* and an error_type tag; no exception reaches the caller.
C16_ToolResultIsStructured ==
    BoundToolCall =>
        /\ outcome.kind = "return"
        /\ "success" \in DOMAIN outcome.value
        /\ outcome.value.success = FALSE =>
               {"error", "error_type"} \subseteq DOMAIN outcome.value

\* A mutate-by-ID connector call that the host answered with a count.
HostMutationCounted ==
    /\ op \in {"mark_as_read", "move_messages", "flag_message", "delete_messages"}
    /\ outcome.kind = "return"

\* C17: the count a mutate-by-ID operation returns never exceeds the number
\* of IDs it was given, whichever mailbox the mutation puts a message in and
\* whatever order the host visits the mailboxes in.
C17_CountWithinRequestedIds ==
    HostMutationCounted => outcome.value <= Len(args.message_ids)

\* The mailboxes holding the message `origin` or a copy of it.
MailboxesHolding(messages, origin) ==
    { m.mailbox : m \in { x \in messages : x.origin = origin } }

\* C18: a gmail_mode move never leaves a message both in the mailbox it was
\* in and in the destination.
C18_GmailMoveLeavesNoCopyInSource ==
    [][(op' = "move_messages" /\ args'.gmail_mode) =>
        \A m \in store :
            m.mailbox # args'.destination_mailbox =>
                ~ ({m.mailbox, args'.destination_mailbox}
                       \subseteq MailboxesHolding(store', m.origin))]_vars

\* The script delete_messages sends for the same IDs with the other setting
\* of `permanent`.
ScriptWithOtherPermanent ==
    delete_messages(args.message_ids, ~args.permanent, args.skip_bulk_check,
                    calls[1].proc).calls[1].script

\* C19: the commands delete_messages issues to the host with permanent=true
\* differ from those it issues with permanent=false.
C19_PermanentAndTrashCommandsDiffer ==
    (op = "delete_messages" /\ calls # <<>>) =>
        calls[1].script # ScriptWithOtherPermanent

\* The idList line a script has when every ID is sanitized and then escaped.
SafeIdListLine(message_ids) ==
    id_list_prefix
    \o Join([i \in DOMAIN message_ids |->
                escape_applescript_string(sanitize_input(message_ids[i]))], ", ")
    \o "}"

\* C20: the message IDs a mutate-by-ID operation interpolates into its
\* script have been sanitized and then escaped.
C20_MessageIdsSanitizedThenEscaped ==
    (/\ op \in {"mark_as_read", "move_messages", "flag_message", "delete_messages"}
     /\ calls # <<>>) =>
        \E i \in DOMAIN calls[1].script :
            calls[1].script[i] = SafeIdListLine(args.message_ids)

\* A reply or forward whose message ID is not a number; a forward's
\* recipients are all valid, so nothing else can refuse the call.
NonNumericReplyOrForward ==
    /\ op \in {"reply_to_message", "forward_message"}
    /\ ~IsDigit(args.message_id)
    /\ op = "forward_message" =>
          /\ args.to # <<>>
          /\ FirstInvalid(args.to \o OrEmpty(args.cc) \o OrEmpty(args.bcc)) = None

\* C21: reply_to_message and forward_message refuse a message ID that is not
\* numeric with ValueError "Invalid message ID" before any bridge call.
C21_NonNumericIdRejectedBeforeBridge ==
    NonNumericReplyOrForward =>
        /\ calls = <<>>
        /\ outcome.kind = "raise"
        /\ outcome.exc = "ValueError"
        /\ Contains(outcome.msg, "Invalid message ID")

\* A search that returned what local filtering made of an index scan.
ScanCall ==
    /\ op = "search_messages"
    /\ calls # <<>>
    /\ IsIndexScan(calls[Len(calls)].script)
    /\ outcome.kind = "return"

\* The records the scan of the call fetched.
Scanned == _parse_message_results(calls[Len(calls)].result.value)

\* The record passes every filter the call supplies.
Satisfies(msg, arguments) ==
    /\ arguments.sender_contains # None =>
           Contains(Lower(msg.sender), Lower(arguments.sender_contains[1]))
    /\ arguments.subject_contains # None =>
           Contains(Lower(msg.subject), Lower(arguments.subject_contains[1]))
    /\ arguments.read_status # None => msg.read_status = arguments.read_status[1]

\* The subsequence of the records that pass, in their original order.
Matching(records, arguments) ==
    LET passing == {i \in DOMAIN records : Satisfies(records[i], arguments)}
    IN  [k \in 1..Cardinality(passing) |->
            records[CHOOSE i \in passing : Cardinality({j \in passing : j <= i}) = k]]

FirstN(seq, n) == SubSeq(seq, 1, IF n < Len(seq) THEN n ELSE Len(seq))

\* C22 as stated: local filtering returns exactly the first `limit` matching
\* records, all of them only when no limit is given.
C22_ScanFilterReturnsFirstLimit ==
    ScanCall =>
        outcome.value =
            IF args.limit = None THEN Matching(Scanned, args)
            ELSE FirstN(Matching(Scanned, args), args.limit[1])

\* C22, amended: local filtering returns, in original order, the first
\* `limit` matching records for a positive limit, and all matching records
\* when the limit is absent or 0.
C22_ScanFilterLimitZeroMeansAll ==
    ScanCall =>
        outcome.value =
            IF args.limit = None \/ args.limit[1] = 0 THEN Matching(Scanned, args)
            ELSE FirstN(Matching(Scanned, args), args.limit[1])

C22_Witness ==
    /\ ScanCall
    /\ Len(Scanned) = 3
    /\ args.sender_contains = Some("AL")
    /\ args.limit = Some(1)
    /\ Len(Matching(Scanned, args)) = 2
    /\ Len(outcome.value) = 1
    /\ outcome.value[1].sender = "al@x.com"

\* Batches of five-field records: id, subject, sender, date, read.
RecordBatches ==
    { << << "101", "Hi", "al@x.com", "Mon", "false" >>,
         << "102", "Re: hi", "Bob@x.com", "Tue", "true" >>,
         << "103", "Yo", "AL@y.org", "Wed", "false" >> >>,
      << << "201", "Sale", "shop@z.io", "Thu", "TRUE" >>,
         << "202", "", "me@z.io", "Fri", "missing value" >> >> }

\* The lines of a batch as the search scripts write them.
EncodeLines(batch) ==
    Join([i \in DOMAIN batch |-> Join(batch[i], "|")], "\n")

\* The read flag a field stands for: true exactly for "true" in any case.
ReadFlag(field) == field \in {"true", "True", "TRUE", "tRUE", "trUE", "truE", "TRue", "TRUe", "TrUe", "TruE", "tRue", "trUe", "tRuE", "TrUE", "tRUe", "TRuE"}

\* A search that returned the decoding of the filtered query's output.
FilteredQueryReturned ==
    /\ op = "search_messages"
    /\ Len(calls) = 1
    /\ HasWhoseClause(calls[1].script)
    /\ outcome.kind = "return"

\* C23: a five-field line decodes to a record with the fields in that
\* order and read_status true exactly for "true" in any case; empty output
\* decodes to the empty sequence; and the seventh field of the
\* single-message form comes back whole even when it contains pipes.
C23_DecodingKeepsFields ==
    /\ FilteredQueryReturned =>
         /\ calls[1].result.value = "" => outcome.value = <<>>
         /\ \A batch \in RecordBatches :
              calls[1].result.value = EncodeLines(batch) =>
                  outcome.value =
                      [i \in DOMAIN batch |->
                          [id |-> batch[i][1], subject |-> batch[i][2],
                           sender |-> batch[i][3], date_received |-> batch[i][4],
                           read_status |-> ReadFlag(batch[i][5])]]
    /\ (op = "get_message" /\ calls[1].result.kind = "return") =>
         \A fields \in MessageFields :
             calls[1].result.value = Join(fields, "|") =>
                 outcome = Return([id |-> fields[1], subject |-> fields[2],
                                   sender |-> fields[3], date_received |-> fields[4],
                                   read_status |-> ReadFlag(fields[5]),
                                   flagged |-> ReadFlag(fields[6]),
                                   content |-> fields[7]])

C23_Witness ==
    /\ op = "get_message"
    /\ calls[1].result.kind = "return"
    /\ Len(Split(calls[1].result.value, "|")) = 9
    /\ outcome.kind = "return"
    /\ outcome.value.content = "a|b|c"
    /\ outcome.value.read_status

C23_BatchWitness ==
    /\ FilteredQueryReturned
    /\ Len(outcome.value) = 2
    /\ outcome.value[1].read_status
    /\ ~outcome.value[2].read_status
    /\ outcome.value[2].subject = ""

\* A connector send whose attachments all exist and are regular files.
SendWithPresentFiles ==
    /\ op = "send_email_with_attachments"
    /\ \A i \in DOMAIN args.attachments :
           args.attachments[i].exists /\ args.attachments[i].is_file

Oversized(file) == file.size > 25 * 1024 * 1024

ExecutableLike(file) ==
    \E ext \in dangerous_extensions : EndsWith(Lower(PathName(file.path)), ext)

RejectedWithoutBridge ==
    /\ calls = <<>>
    /\ outcome.kind = "raise"
    /\ outcome.exc = "ValueError"

C24_RejectionWitness ==
    /\ SendWithPresentFiles
    /\ args.attachments = <<Installer>>
    /\ RejectedWithoutBridge

name_property_prefix == "{name:\""

\* The name the creation script gives the new mailbox.
ScriptMailboxName(script) ==
    LET line == script[Len(script)]
        start == CHOOSE i \in 1..Len(line) :
                     /\ SubSeq(line, i, i + Len(name_property_prefix) - 1) = name_property_prefix
                     /\ \A j \in 1..(i - 1) :
                            SubSeq(line, j, j + Len(name_property_prefix) - 1)
                                # name_property_prefix
    IN  SubSeq(line, start + Len(name_property_prefix), Len(line) - 2)

\* The sequences and characters a mailbox name must not carry.
ForbiddenInMailboxName == {"..", "/", "\\", "<", ">", ":", "\"", "|", "?", "*"}

\* C25: the mailbox name create_mailbox places in the script contains no
\* "..", no "/" or "\" and none of < > : " | ? *.
C25_ScriptMailboxNameIsClean ==
    (op = "tool_create_mailbox" /\ calls # <<>>) =>
        \A bad \in ForbiddenInMailboxName :
            ~Contains(ScriptMailboxName(calls[1].script), bad)

\* C26: a search_messages call changes the whose-unsupported cache by at
\* most its own account, every other operation leaves the cache alone, and
\* a search for an account not in the cache sends the filtered query first.
C26_CacheEntriesArePerAccount ==
    [][ /\ op' = "search_messages" =>
             /\ whose_unsupported_accounts \subseteq whose_unsupported_accounts'
             /\ whose_unsupported_accounts' \ whose_unsupported_accounts
                    \subseteq {args'.account}
             /\ args'.account \notin whose_unsupported_accounts =>
                    HasWhoseClause(calls'[1].script)
        /\ op' # "search_messages" =>
             whose_unsupported_accounts' = whose_unsupported_accounts
      ]_vars

C26_Witness ==
    /\ op = "search_messages"
    /\ args.account = "Exchange"
    /\ whose_unsupported_accounts = {"Gmail"}
    /\ Len(calls) = 1
    /\ HasWhoseClause(calls[1].script)
    /\ outcome.kind = "return"

\* The mailboxes the host's account has.
HostMailboxes == {"INBOX", "Archive", "Trash"}

ScanPathOutcome ==
    search_messages({args.account}, args.account, args.mailbox, args.sender_contains,
                    args.subject_contains, args.read_status, args.limit, args.scan_limit,
                    RunSearch(store, direct_script(args.account, args.mailbox,
                                                   args.scan_limit), "reference"),
                    TimeoutExpired).outcome

\* A search the host answered with the records of the filtered query.
AnsweredByFilteredQuery ==
    /\ op = "search_messages"
    /\ Len(calls) = 1
    /\ Contains(calls[1].script[Len(calls[1].script)], "whose")
    /\ outcome.kind = "return"

\* C28: inside the scan window a search answered by the filtered query
\* returns the records the scan path returns for the same arguments.
C28_FilteredQueryAgreesWithScan ==
    AnsweredByFilteredQuery => outcome = ScanPathOutcome

\* The same agreement for filters that sanitization leaves as they are.
FilteredQueryAgreesForCleanFilters ==
    (AnsweredByFilteredQuery /\ args.sender_contains # Some("al" \o NUL)) =>
        outcome = ScanPathOutcome

\* The last n entries of the log, all of it when it holds fewer.
MostRecent(log, n) == SubSeq(log, IF Len(log) > n THEN Len(log) - n + 1 ELSE 1, Len(log))

\* C29: get_recent_operations(limit) returns, for every limit >= 0, at most
\* `limit` entries: the most recent ones of the log, in their order.
C29_RecentOperationsBoundedByLimit ==
    op = "get_recent_operations" =>
        /\ Len(outcome.value) <= args.limit
        /\ outcome.value = MostRecent(operations, args.limit)

\* The log only grows at its end, and asking for recent entries leaves it
\* as it is.
LogIsAppendOnly ==
    [][ /\ Len(operations') >= Len(operations)
        /\ SubSeq(operations', 1, Len(operations)) = operations
        /\ op' = "get_recent_operations" => operations' = operations ]_vars

\* A search whose filtered query the bridge refused with a whose-unsupported
\* signature, and whose scan fetch, the second invocation, failed as well.
FilteredQueryAndScanFailed ==
    /\ op = "search_messages"
    /\ Len(calls) >= 2
    /\ HasWhoseClause(calls[1].script)
    /\ calls[1].result.kind = "raise"
    /\ calls[1].result.exc = "MailAppleScriptError"
    /\ MatchesWhoseSignature(calls[1].result.msg)
    /\ IsIndexScan(calls[2].script)
    /\ calls[2].result.kind = "raise"

\* C30: when the filtered query fails with a whose-unsupported signature
\* and the scan fetch of the same call fails too, the caller gets the scan's
\* error, the call made exactly two bridge invocations, and the account is
\* in the whose-unsupported cache.
C30_FailedScanPropagatesAndKeepsMark ==
    FilteredQueryAndScanFailed =>
        /\ outcome = calls[2].result
        /\ Len(calls) = 2
        /\ args.account \in whose_unsupported_accounts

C30_Witness ==
    /\ FilteredQueryAndScanFailed
    /\ calls[2].proc.kind = "timeout"
    /\ outcome.kind = "raise"
    /\ Contains(outcome.msg, "timeout")
    /\ whose_unsupported_accounts = {args.account}

====
